---- MODULE Spec2Model ----
(***************************************************************************)
(* Verification model of the resilient-connection core of robo-python.     *)
(*                                                                         *)
(* The module holds several specifications over one set of variables, one  *)
(* per component; a component's actions leave the other components'        *)
(* variables unchanged:                                                    *)
(*   SpecRS    ReconnectionSystem driven by _handle_disconnection, with a  *)
(*             reconnect collaborator that may succeed, fail or raise      *)
(*   SpecBot   the same with the bot's own collaborator                    *)
(*             (_perform_reconnection catches every Exception: no raise)   *)
(*   SpecDelay ReconnectionStrategy.get_delay / get_persistent_delay as    *)
(*             pure functions of (context, attempt)                        *)
(*   SpecCM    ConnectionMonitor sampling loop                             *)
(*   SpecQuality  ConnectionMonitor._evaluate_connection_quality as a pure *)
(*             function of the metrics                                     *)
(*   SpecWS    WebSocketManager: request table, read pump, connect and     *)
(*             disconnect                                                  *)
(*   SpecWSFair  the same with a main loop that keeps running              *)
(*   SpecLedger the contract ledger of TradingBot (operations, push       *)
(*             frames, result verification, forced losses) together with   *)
(*             ContractRecovery.recover_lost_contracts                     *)
(*   SpecMP    MessageProcessor: classification and dispatch of frames     *)
(*   SpecClassify  MessageProcessor._identify_message_type as a pure       *)
(*             function of the frame                                       *)
(*   SpecRunFair  SpecBot with the venue's error frames and the end of     *)
(*             TradingBot.run, every task being scheduled fairly           *)
(*   SpecTasks the asyncio tasks that run _message_loop and                *)
(*             _handle_disconnection, with connect() and disconnect()      *)
(*                                                                         *)
(* asyncio is single-threaded and cooperative: an action is the code one   *)
(* task runs between two awaits.  Delays are in tenths of a second.        *)
(***************************************************************************)
EXTENDS Integers, Sequences, FiniteSets, TLC

VARIABLES
    \* ---- ReconnectionSystem (reconnection_system.py) ----
    is_reconnecting, is_persistent_mode, attempt_count, persistent_cycle,
    current_strategy, total_reconnections, successful_reconnections,
    persistent_recoveries, delay,
    \* ---- TradingBot._handle_disconnection invocations and collaborators ----
    hpc, hctx, is_running, is_connected, has_tick, has_open,
    stubM, stubCalls, last_outcome, episode_exit,
    \*   stubCalls counts the calls of reconnect_callback in the episode and
    \*   stubM is the call on which it returned True (0 while it has not): the
    \*   collaborator "fails stubM-1 times and succeeds on call stubM".
    \* ---- ReconnectionStrategy delay functions applied to drawn inputs ----
    d_ctx, d_k, d_kind, d_index, d_delay,
    \* ---- ConnectionMonitor (connection_monitor.py) ----
    is_monitoring, current_quality, consecutive_poor_checks, quality_alerts_sent,
    history_size, forced_reconnects, fired_now, critical_run,
    \*   forced_reconnects counts the calls of reconnect_callback, fired_now says
    \*   whether the latest sample called it, critical_run is the number of
    \*   latest consecutive samples evaluated CRITICAL.
    \* ---- WebSocketManager (websocket_manager.py) ----
    websocket, is_authorized, pending_requests, clock, pump, wire,
    rpc, req_id, future, on_socket, answered,
    rc_pc,
    resolved, notified, message_count
    \*   websocket is "None", "open" or "closed" (the object's closed property);
    \*   pending_requests maps a req_id to the request whose Future it holds;
    \*   clock is int(time.time() * 1000000); wire holds the req_ids of the
    \*   frames the server has sent and the pump has not read.
    \*   Call r of send_request: rpc its position, req_id and future its
    \*   locals, on_socket whether the socket it was written on is still
    \*   self.websocket, answered whether the server has replied.
    \*   rc_pc is the position of the task that (re)connects
    \*   (_connect_and_setup, then _handle_disconnection/_perform_reconnection).
    \*   History: resolved[r] counts the resolutions of r's Future, notified the
    \*   calls of disconnection_callback in the current connection lifetime.
    \*   message_count is MessageProcessor.message_count: the frames the pump
    \*   has passed on to message_callback.
    ,
    \* ---- Contract ledger (bot.py, data_models.py) and ContractRecovery ----
    dual_entry, status, profit, forced_result, amount, venue, venue_balance,
    active_contracts, current_sequence, loss_accumulator, forced_total_loss,
    ftl_attr, balance,
    monitored_contracts, rec_pc, rec_i, rec_attempt, report,
    contracts_forced_as_loss,
    verifying,
    how, updates, backups, operations,
    \*   Contract c: status ("none" until bought, "gone" once the object is
    \*   unreferenced and freed), profit, forced_result and amount are the
    \*   fields of its ContractInfo; venue[c] is its outcome at the venue
    \*   ("open" until settled, "closed" once settled and forgotten by the
    \*   bot) and venue_balance the account at the venue.  Money is in cents.
    \*   active_contracts is asset_state.active_contracts (one asset);
    \*   ftl_attr says whether the AssetState instance still has its own
    \*   forced_total_loss attribute (delattr removes it and the class-level
    \*   default None shows through).
    \*   monitored_contracts is the snapshot in its insertion order; rec_pc the
    \*   position of _handle_disconnection / recover_lost_contracts, rec_i the
    \*   index of the contract being recovered, rec_attempt the number of
    \*   queries already made for it; report holds recovered_count,
    \*   failed_count and total_profit while the loop runs and is the dict
    \*   returned once rec_pc has left "query".
    \*   verifying is the contract whose _verify_contract_result is awaiting
    \*   its response (0: none).
    \*   History: how[c] says where c's current status and profit come from
    \*   ("none", "venue": a report of the venue, "placeholder": a forced
    \*   loss); updates[c] counts the calls of contract_update_callback for c
    \*   in the current recovery; backups counts the invocations of
    \*   _handle_disconnection, operations the operations executed.
    \* ---- MessageProcessor (message_processor.py) ----
    error_count, message_stats, ignored_message_types, callbacks,
    data, message_type, invoked, raised, propagated,
    \*   error_count, message_stats and ignored_message_types are the fields of
    \*   that name; callbacks is the set of types whose callback field
    \*   (tick_callback, contract_callback, balance_callback, error_callback)
    \*   is set.
    \*   History of the last call of process_message: data is the frame it
    \*   was given, message_type the result of _identify_message_type for it,
    \*   invoked the callbacks awaited for it, in order, raised the exception
    \*   with which the callback ended ("none": it returned, or none was
    \*   awaited) and propagated the exception that left process_message
    \*   ("none": it returned).
    \* ---- ConnectionMonitor._evaluate_connection_quality, on its own ----
    metrics, score_x2, evaluated,
    \*   metrics is the ConnectionMetrics given to the function, score_x2
    \*   twice the local variable score at its end (the last penalty is half
    \*   a duration) and evaluated the value returned ("none" before the call).
    \* ---- The asyncio tasks of the transport (websocket_manager.py, bot.py) ----
    task_pc, hd_pc, message_loop_task
    \*   task_pc[t] is where task t is: "none" (not created), "reading" (a
    \*   _message_loop in its while loop), "frame" (a _message_loop inside
    \*   process_message, running _handle_disconnection for an error frame),
    \*   "finally" (a _message_loop in its finally clause, awaiting
    \*   disconnection_callback), "task" (a task created by _main_loop for
    \*   _handle_disconnection) or "done"; hd_pc[t] is the position of the
    \*   _handle_disconnection that runs in t; message_loop_task is the field
    \*   of that name (0: None).

rsVars == <<is_reconnecting, is_persistent_mode, attempt_count, persistent_cycle,
            current_strategy, total_reconnections, successful_reconnections,
            persistent_recoveries, delay,
            hpc, hctx, is_running, has_tick, has_open,
            stubM, stubCalls, last_outcome, episode_exit>>
dlVars == <<d_ctx, d_k, d_kind, d_index, d_delay>>
cmVars == <<is_monitoring, current_quality, consecutive_poor_checks,
            quality_alerts_sent, history_size, forced_reconnects, fired_now,
            critical_run>>
wsTransport == <<websocket, is_authorized, pending_requests, clock, pump, wire,
                 rpc, req_id, future, on_socket, answered, rc_pc,
                 resolved, notified>>
wsVars == <<wsTransport, message_count>>
mpVars == <<error_count, message_stats, ignored_message_types, callbacks,
            data, message_type, invoked, raised, propagated>>
lgVars == <<dual_entry, status, profit, forced_result, amount, venue,
            venue_balance,
            active_contracts, current_sequence, loss_accumulator,
            forced_total_loss, ftl_attr, balance,
            monitored_contracts, rec_pc, rec_i, rec_attempt, report,
            contracts_forced_as_loss,
            verifying, how, updates, backups, operations>>
qeVars == <<metrics, score_x2, evaluated>>
tkVars == <<task_pc, hd_pc, message_loop_task>>
vars == <<rsVars, is_connected, dlVars, cmVars, wsVars, lgVars, mpVars, qeVars, tkVars>>

\* What the actions of one component leave unchanged (is_connected is shared
\* by the controller and the transport).
notRS == <<dlVars, cmVars, wsVars, lgVars, mpVars, qeVars, tkVars>>
notDL == <<rsVars, is_connected, cmVars, wsVars, lgVars, mpVars, qeVars, tkVars>>
notCM == <<rsVars, is_connected, dlVars, wsVars, lgVars, mpVars, qeVars, tkVars>>
notWS == <<rsVars, dlVars, cmVars, lgVars, mpVars, qeVars, tkVars>>
notLG == <<rsVars, dlVars, cmVars, wsVars, mpVars, qeVars, tkVars>>
notMP == <<rsVars, is_connected, dlVars, cmVars, wsTransport, lgVars, qeVars, tkVars>>
notQE == <<rsVars, is_connected, dlVars, cmVars, wsVars, lgVars, mpVars, tkVars>>

(***************************************************************************)
(* Bounds of the model.                                                    *)
(***************************************************************************)
MaxHandlers == 2      \* concurrent invocations of _handle_disconnection
MaxEpisodes == 1      \* reconnection episodes per behaviour
MaxM == 14            \* the reconnect collaborator succeeds at the latest on call MaxM
MaxK == 40            \* largest attempt / cycle number given to the delay functions
MaxSamples == 6       \* iterations of the monitoring loop per behaviour
MaxReq == 2           \* calls of send_request per behaviour
MaxClock == 2         \* largest reading of the microsecond clock (the first is 1)
MaxOperations == 1    \* operations executed per behaviour
MaxUptimeLoss == 45   \* uptime_percentage is at least 100 - MaxUptimeLoss
MaxLiveReq == 1       \* calls of send_request per behaviour of the fair specification
MaxFrames == 2        \* frames given to process_message between two resets of the statistics
MaxTasks == 4         \* tasks created for _message_loop and _handle_disconnection
MaxKeys == 3          \* keys of a frame

Handlers == 1..MaxHandlers
Tasks == 1..MaxTasks
Req == 1..MaxReq
\* The contract objects of the operation in flight: its CALL and PUT leg with
\* dual entry, the first alone with single entry.
Cid == 1..2

(***************************************************************************)
(* Configuration of the ledger: MARTINGALE risk management with a FIXED     *)
(* initial amount of 1.00, the venue pays 1.95 on a won contract of 1.00.   *)
(***************************************************************************)
InitialBalance == 1000     \* cents
amount_value == 100        \* INITIAL_AMOUNT, cents
multiplier == 2            \* MARTINGALE_MULTIPLIER
max_sequence == 2          \* MARTINGALE_MAX_SEQUENCE
max_recovery_attempts == 3 \* ContractRecovery.max_recovery_attempts
PayoutPerCent == 195       \* payout of a won contract, per cent of its stake

(***************************************************************************)
(* Helpers for Python semantics.                                           *)
(***************************************************************************)
Min(a, b) == IF a <= b THEN a ELSE b

IndexError == 0 - 1

\* s[i] for a Python list: 0-based, negative indices count from the end,
\* anything else raises IndexError.
PyIndex(s, i) ==
    IF i >= 0 /\ i < Len(s) THEN s[i + 1]
    ELSE IF i < 0 /\ -i <= Len(s) THEN s[Len(s) + i + 1]
    ELSE IndexError

(***************************************************************************)
(* ReconnectionContext / ReconnectionStrategy                              *)
(***************************************************************************)
EMERGENCY_TICKS == "emergency_ticks"
PRIORITY_CONTRACTS == "priority_contracts"
NORMAL_IDLE == "normal_idle"
ReconnectionContext == {EMERGENCY_TICKS, PRIORITY_CONTRACTS, NORMAL_IDLE}
NoStrategy == "None"

_get_delays_for_context(context) ==
    IF context = EMERGENCY_TICKS THEN <<5, 10, 20, 30, 50, 80, 100>>
    ELSE IF context = PRIORITY_CONTRACTS THEN <<20, 40, 60, 100, 150, 200, 300>>
    ELSE <<100, 100, 100, 100, 100, 100, 100>>

_get_max_attempts_for_context(context) ==
    IF context = EMERGENCY_TICKS THEN 10
    ELSE IF context = PRIORITY_CONTRACTS THEN 7
    ELSE 5

_get_persistent_delays(context) ==
    IF context = EMERGENCY_TICKS THEN <<100, 100, 100>>
    ELSE IF context = PRIORITY_CONTRACTS THEN <<100, 100, 100>>
    ELSE <<100, 100, 100>>

get_delay_index_off_by_one(context, attempt) ==
    Min(attempt, Len(_get_delays_for_context(context)))

\* index = min(attempt - 1, len(self.delays) - 1)
get_delay_index(context, attempt) ==
    Min(attempt - 1, Len(_get_delays_for_context(context)) - 1)

get_delay(context, attempt) ==
    PyIndex(_get_delays_for_context(context), get_delay_index(context, attempt))

\* index = min(cycle - 1, len(self.persistent_delays) - 1)
get_persistent_delay_index(context, cycle) ==
    Min(cycle - 1, Len(_get_persistent_delays(context)) - 1)

get_persistent_delay(context, cycle) ==
    PyIndex(_get_persistent_delays(context), get_persistent_delay_index(context, cycle))

determine_context_contracts_first(tick, open) ==
    IF open THEN PRIORITY_CONTRACTS
    ELSE IF tick THEN EMERGENCY_TICKS
    ELSE NORMAL_IDLE

\* tick / open are the values returned by has_tick_operations_callback() and
\* has_active_contracts_callback().
determine_context(tick, open) ==
    IF tick THEN EMERGENCY_TICKS
    ELSE IF open THEN PRIORITY_CONTRACTS
    ELSE NORMAL_IDLE

(***************************************************************************)
(* Initial states                                                          *)
(***************************************************************************)
InitRSVars ==
    /\ is_reconnecting = FALSE
    /\ is_persistent_mode = FALSE
    /\ attempt_count = 0
    /\ persistent_cycle = 0
    /\ current_strategy = NoStrategy
    /\ total_reconnections = 0
    /\ successful_reconnections = 0
    /\ persistent_recoveries = 0
    /\ delay = 0
    /\ hpc = [h \in Handlers |-> "idle"]
    /\ hctx = [h \in Handlers |-> NoStrategy]
    /\ is_running = TRUE
    /\ has_tick = FALSE
    /\ has_open = FALSE
    /\ stubM = 0
    /\ stubCalls = 0
    /\ last_outcome = "none"
    /\ episode_exit = "none"

IdleDLVars ==
    /\ d_ctx = NORMAL_IDLE
    /\ d_k = 1
    /\ d_kind = "idle"
    /\ d_index = 0
    /\ d_delay = 0

\* No ConnectionMetrics has been evaluated.
NoMetrics ==
    [latency_ms |-> 0, uptime_percentage |-> 100, error_rate_percentage |-> 0,
     reconnection_count |-> 0, last_disconnection_duration |-> 0]

\* ConnectionMonitor.__init__
InitCMVars ==
    /\ is_monitoring = FALSE
    /\ current_quality = "excellent"
    /\ consecutive_poor_checks = 0
    /\ quality_alerts_sent = {}
    /\ history_size = 0
    /\ forced_reconnects = 0
    /\ fired_now = FALSE
    /\ critical_run = 0
    /\ metrics = NoMetrics
    /\ score_x2 = 0
    /\ evaluated = "none"

\* self.pending_requests: Dict[int, asyncio.Future] = {}
EmptyTable == [k \in {} |-> 0]

\* WebSocketManager.__init__
InitWSVars ==
    /\ websocket = "None"
    /\ is_authorized = FALSE
    /\ pending_requests = EmptyTable
    /\ clock = 1
    /\ pump = "none"
    /\ wire = {}
    /\ rpc = [r \in Req |-> "idle"]
    /\ req_id = [r \in Req |-> 0]
    /\ future = [r \in Req |-> "none"]
    /\ on_socket = [r \in Req |-> FALSE]
    /\ answered = [r \in Req |-> FALSE]
    /\ rc_pc = "connect"
    /\ resolved = [r \in Req |-> 0]
    /\ notified = 0
    /\ message_count = 0
    /\ task_pc = [t \in Tasks |-> "none"]
    /\ hd_pc = [t \in Tasks |-> "none"]
    /\ message_loop_task = 0

\* The value None of the Optional[float] forced_total_loss: an integer no
\* amount of cents in the model can reach.
None == 0 - 1000000

\* No report returned yet.
NoReport ==
    [total_contracts |-> 0 - 1, recovered |-> 0, failed |-> 0, total_profit |-> 0]

\* TradingBot.__init__, AssetState and ContractRecovery.__init__ for one asset
\* with nothing bought yet; dual is config.DUAL_ENTRY.
LGVarsAtStart(dual) ==
    /\ dual_entry = dual
    /\ status = [c \in Cid |-> "none"]
    /\ profit = [c \in Cid |-> 0]
    /\ forced_result = [c \in Cid |-> FALSE]
    /\ amount = [c \in Cid |-> 0]
    /\ venue = [c \in Cid |-> "open"]
    /\ venue_balance = InitialBalance
    /\ active_contracts = {}
    /\ current_sequence = 1
    /\ loss_accumulator = 0
    /\ forced_total_loss = None
    /\ ftl_attr = TRUE
    /\ balance = InitialBalance
    /\ monitored_contracts = <<>>
    /\ rec_pc = "idle"
    /\ rec_i = 0
    /\ rec_attempt = 0
    /\ report = NoReport
    /\ contracts_forced_as_loss = 0
    /\ verifying = 0
    /\ how = [c \in Cid |-> "none"]
    /\ updates = [c \in Cid |-> 0]
    /\ backups = 0
    /\ operations = 0

\* The ledger as the other specifications hold it: single entry, untouched.
IdleLGVars == LGVarsAtStart(FALSE)

\* MessageProcessor.__init__: the frame history is empty.
NoFrame == [keys |-> {}, tag |-> "none"]

InitMPVars ==
    /\ error_count = 0
    /\ message_stats = [t \in {} |-> 0]
    /\ ignored_message_types = {"website_status", "msg_type", "pong", "ping"}
    /\ callbacks = {}
    /\ data = NoFrame
    /\ message_type = "none"
    /\ invoked = <<>>
    /\ raised = "none"
    /\ propagated = "none"

(***************************************************************************)
(* ReconnectionSystem.start_persistent_reconnection and its two loops,     *)
(* called from TradingBot._handle_disconnection (handler h).               *)
(***************************************************************************)
RejectsEntry_never(reconnecting) == FALSE

\* if self.is_reconnecting: return False
RejectsEntry(reconnecting) == reconnecting

FastPhaseContinues_one_short(count, context) ==
    count + 1 < _get_max_attempts_for_context(context)

\* while self.attempt_count < self.current_strategy.max_attempts
FastPhaseContinues(count, context) ==
    count < _get_max_attempts_for_context(context)

ReevaluatesContext_every_cycle(cycle) == TRUE

\* if self.persistent_cycle % 3 == 0
ReevaluatesContext(cycle) == cycle % 3 = 0

\* Head of _persistent_reconnection_loop up to its await asyncio.sleep(delay).
PersistentLoopHead(h, cycle, context) ==
    /\ persistent_cycle' = cycle + 1
    /\ delay' = get_persistent_delay(context, cycle + 1)
    /\ hpc' = [hpc EXCEPT ![h] = "pers_sleep"]

\* Head of _initial_reconnection_attempts up to its await asyncio.sleep(delay);
\* when the loop condition fails the function returns False and
\* start_persistent_reconnection sets is_persistent_mode and enters the
\* persistent loop.
FastLoopHead(h, count, context) ==
    IF FastPhaseContinues(count, context)
    THEN /\ attempt_count' = count + 1
         /\ delay' = get_delay(context, count + 1)
         /\ hpc' = [hpc EXCEPT ![h] = "fast_sleep"]
         /\ is_persistent_mode' = FALSE
         /\ persistent_cycle' = 0
    ELSE /\ attempt_count' = count
         /\ is_persistent_mode' = TRUE
         /\ PersistentLoopHead(h, 0, context)

\* _attempt_reconnection, success: if not self.is_persistent_mode:
\* self.successful_reconnections += 1
CountedByAttempt_always(persistent_mode) == 1

CountedByAttempt(persistent_mode) == IF persistent_mode THEN 0 ELSE 1

\* _persistent_reconnection_loop, success: self.successful_reconnections += 1
\* and self.persistent_recoveries += 1; pc is where the handler awaits the
\* attempt.
CountedByPersistentLoop(pc) == IF pc = "pers_attempt" THEN 1 ELSE 0

\* A finally clause that leaves the persistent-mode flag as it is.
EpisodeFinally_keeps_mode ==
    /\ is_reconnecting' = FALSE
    /\ is_persistent_mode' = is_persistent_mode
    /\ current_strategy' = NoStrategy

\* finally: of start_persistent_reconnection
EpisodeFinally ==
    /\ is_reconnecting' = FALSE
    /\ is_persistent_mode' = FALSE
    /\ current_strategy' = NoStrategy

MarksReconnecting_not == FALSE

\* self.is_reconnecting = True
MarksReconnecting == TRUE

\* Body of _handle_disconnection from its first line to its first await:
\* the call of start_persistent_reconnection either returns False at once
\* (the else branch of the handler then clears is_running) or starts an
\* episode and runs to the first sleep of the fast loop.
HandleDisconnection(h) ==
    IF RejectsEntry(is_reconnecting)
    THEN /\ hpc' = [hpc EXCEPT ![h] = "gave_up"]
         /\ is_running' = FALSE
         /\ UNCHANGED <<is_reconnecting, is_persistent_mode, attempt_count,
                        persistent_cycle, current_strategy, total_reconnections,
                        delay, hctx, stubM, stubCalls, last_outcome, episode_exit>>
    ELSE /\ is_reconnecting' = MarksReconnecting
         /\ total_reconnections' = total_reconnections + 1
         /\ current_strategy' = determine_context(has_tick, has_open)
         /\ hctx' = [hctx EXCEPT ![h] = determine_context(has_tick, has_open)]
         /\ FastLoopHead(h, 0, determine_context(has_tick, has_open))
         /\ stubM' = 0
         /\ stubCalls' = 0
         /\ last_outcome' = "none"
         /\ episode_exit' = "none"
         /\ UNCHANGED is_running

EpisodeBudget ==
    total_reconnections + Cardinality({h \in Handlers : hpc[h] = "spawned"}) < MaxEpisodes

\* _message_loop finally: the pump finds is_connected still set, clears it and
\* awaits disconnection_callback, which is _handle_disconnection.
PumpNotify(h) ==
    /\ hpc[h] = "idle"
    /\ is_connected
    /\ is_reconnecting \/ EpisodeBudget
    /\ is_connected' = FALSE
    /\ HandleDisconnection(h)
    /\ UNCHANGED <<successful_reconnections, persistent_recoveries, has_tick, has_open>>

\* send_request / send_message find websocket.closed and clear is_connected;
\* the pump then leaves its loop without calling the callback.
SendFindsClosed ==
    /\ is_connected
    /\ is_connected' = FALSE
    /\ UNCHANGED <<is_reconnecting, is_persistent_mode, attempt_count, persistent_cycle,
                   current_strategy, total_reconnections, successful_reconnections,
                   persistent_recoveries, delay, hpc, hctx, is_running, has_tick,
                   has_open, stubM, stubCalls, last_outcome, episode_exit>>

\* _main_loop: asyncio.create_task(self._handle_disconnection())
MainLoopSpawn(h) ==
    /\ is_running
    /\ ~is_connected
    /\ ~is_reconnecting
    /\ hpc[h] = "idle"
    /\ EpisodeBudget
    /\ hpc' = [hpc EXCEPT ![h] = "spawned"]
    /\ UNCHANGED <<is_reconnecting, is_persistent_mode, attempt_count, persistent_cycle,
                   current_strategy, total_reconnections, successful_reconnections,
                   persistent_recoveries, delay, hctx, is_running, is_connected,
                   has_tick, has_open, stubM, stubCalls, last_outcome, episode_exit>>

\* The task created by the main loop gets to run.
HandlerRun(h) ==
    /\ hpc[h] = "spawned"
    /\ HandleDisconnection(h)
    /\ UNCHANGED <<successful_reconnections, persistent_recoveries, is_connected,
                   has_tick, has_open>>

\* The operations the context callbacks look at start or finish.
ContextChanges ==
    /\ \E t, o \in BOOLEAN :
          /\ <<t, o>> # <<has_tick, has_open>>
          /\ has_tick' = t
          /\ has_open' = o
    /\ UNCHANGED <<is_reconnecting, is_persistent_mode, attempt_count, persistent_cycle,
                   current_strategy, total_reconnections, successful_reconnections,
                   persistent_recoveries, delay, hpc, hctx, is_running, is_connected,
                   stubM, stubCalls, last_outcome, episode_exit>>

\* asyncio.sleep(delay) is over and _attempt_reconnection awaits
\* reconnect_callback(); _perform_reconnection first disconnects a transport
\* that is still marked connected.
SleepDone(h) ==
    /\ hpc[h] \in {"fast_sleep", "pers_sleep"}
    /\ hpc' = [hpc EXCEPT ![h] = IF hpc[h] = "fast_sleep" THEN "fast_attempt"
                                  ELSE "pers_attempt"]
    /\ stubCalls' = stubCalls + 1
    /\ last_outcome' = "none"
    /\ is_connected' = FALSE
    /\ UNCHANGED <<is_reconnecting, is_persistent_mode, attempt_count, persistent_cycle,
                   current_strategy, total_reconnections, successful_reconnections,
                   persistent_recoveries, delay, hctx, is_running, has_tick,
                   has_open, stubM, episode_exit>>

\* reconnect_callback() returned True.
AttemptSucceeds(h) ==
    /\ hpc[h] \in {"fast_attempt", "pers_attempt"}
    /\ stubM' = stubCalls
    /\ is_connected' = TRUE
    /\ last_outcome' = "ok"
    /\ successful_reconnections' = successful_reconnections
                                      + CountedByAttempt(is_persistent_mode)
                                      + CountedByPersistentLoop(hpc[h])
    /\ persistent_recoveries' = persistent_recoveries + CountedByPersistentLoop(hpc[h])
    /\ EpisodeFinally
    /\ episode_exit' = "success"
    /\ is_running' = TRUE
    /\ hpc' = [hpc EXCEPT ![h] = "recover"]
    /\ UNCHANGED <<attempt_count, persistent_cycle, total_reconnections, delay, hctx,
                   has_tick, has_open, stubCalls>>

\* reconnect_callback() returned False in the fast phase: next iteration of
\* _initial_reconnection_attempts, or entry into persistent mode.
FastAttemptFails(h) ==
    /\ hpc[h] = "fast_attempt"
    /\ stubCalls < MaxM
    /\ \E c \in BOOLEAN : is_connected' = c
    /\ last_outcome' = "fail"
    /\ FastLoopHead(h, attempt_count, current_strategy)
    /\ UNCHANGED <<is_reconnecting, current_strategy, total_reconnections,
                   successful_reconnections, persistent_recoveries, hctx, is_running,
                   has_tick, has_open, stubM, stubCalls, episode_exit>>

\* reconnect_callback() returned False in persistent mode: every third cycle
\* the context is re-evaluated, then the next cycle starts.
PersistentAttemptFails(h) ==
    /\ hpc[h] = "pers_attempt"
    /\ stubCalls < MaxM
    /\ \E c \in BOOLEAN : is_connected' = c
    /\ last_outcome' = "fail"
    /\ LET new_context == determine_context(has_tick, has_open)
           context == IF ReevaluatesContext(persistent_cycle) /\ new_context # hctx[h]
                      THEN new_context ELSE hctx[h]
       IN /\ hctx' = [hctx EXCEPT ![h] = context]
          /\ current_strategy' =
                IF ReevaluatesContext(persistent_cycle) /\ new_context # hctx[h]
                THEN new_context ELSE current_strategy
          /\ PersistentLoopHead(h, persistent_cycle, current_strategy')
    /\ UNCHANGED <<is_reconnecting, is_persistent_mode, attempt_count,
                   total_reconnections, successful_reconnections, persistent_recoveries,
                   is_running, has_tick, has_open, stubM, stubCalls, episode_exit>>

\* reconnect_callback() raised: nothing in _attempt_reconnection or in the two
\* loops catches it; the except clause of start_persistent_reconnection sets
\* success = False, the finally clause runs and False is returned to
\* _handle_disconnection, whose else branch clears is_running.
AttemptRaises(h) ==
    /\ hpc[h] \in {"fast_attempt", "pers_attempt"}
    /\ last_outcome' = "raise"
    /\ EpisodeFinally
    /\ episode_exit' = "failure"
    /\ is_running' = FALSE
    /\ hpc' = [hpc EXCEPT ![h] = "gave_up"]
    /\ UNCHANGED <<attempt_count, persistent_cycle, total_reconnections,
                   successful_reconnections, persistent_recoveries, delay, hctx,
                   is_connected, has_tick, has_open, stubM, stubCalls>>

\* _handle_disconnection returns (after recovery, or after giving up).
HandlerReturns(h) ==
    /\ hpc[h] \in {"recover", "gave_up"}
    /\ hpc' = [hpc EXCEPT ![h] = "idle"]
    /\ UNCHANGED <<is_reconnecting, is_persistent_mode, attempt_count, persistent_cycle,
                   current_strategy, total_reconnections, successful_reconnections,
                   persistent_recoveries, delay, hctx, is_running, is_connected,
                   has_tick, has_open, stubM, stubCalls, last_outcome, episode_exit>>

\* The bot is up: connected, no episode in progress.
InitRS == InitRSVars /\ is_connected = TRUE /\ IdleDLVars /\ InitCMVars /\ InitWSVars /\ IdleLGVars /\ InitMPVars

NextBot ==
    \/ \E h \in Handlers : PumpNotify(h) /\ UNCHANGED notRS
    \/ SendFindsClosed /\ UNCHANGED notRS
    \/ \E h \in Handlers : MainLoopSpawn(h) /\ UNCHANGED notRS
    \/ \E h \in Handlers : HandlerRun(h) /\ UNCHANGED notRS
    \/ ContextChanges /\ UNCHANGED notRS
    \/ \E h \in Handlers : SleepDone(h) /\ UNCHANGED notRS
    \/ \E h \in Handlers : AttemptSucceeds(h) /\ UNCHANGED notRS
    \/ \E h \in Handlers : FastAttemptFails(h) /\ UNCHANGED notRS
    \/ \E h \in Handlers : PersistentAttemptFails(h) /\ UNCHANGED notRS
    \/ \E h \in Handlers : HandlerReturns(h) /\ UNCHANGED notRS

NextRS ==
    \/ NextBot
    \/ \E h \in Handlers : AttemptRaises(h) /\ UNCHANGED notRS

SpecBot == InitRS /\ [][NextBot]_vars

SpecRS == InitRS /\ [][NextRS]_vars

RSTypeOK ==
    /\ is_reconnecting \in BOOLEAN
    /\ is_persistent_mode \in BOOLEAN
    /\ attempt_count \in 0..10
    /\ persistent_cycle \in 0..MaxM
    /\ current_strategy \in ReconnectionContext \cup {NoStrategy}
    /\ delay \in 0..300

(***************************************************************************)
(* The delay functions applied to drawn inputs.                            *)
(***************************************************************************)
InitDelay ==
    /\ InitRSVars
    /\ is_connected = FALSE
    /\ InitCMVars
    /\ InitWSVars
    /\ IdleLGVars
    /\ InitMPVars
    /\ d_ctx \in ReconnectionContext
    /\ d_k \in 1..MaxK
    /\ d_kind = "input"
    /\ d_index = 0
    /\ d_delay = 0

\* strategy.get_delay(d_k) for the strategy of context d_ctx
ApplyGetDelay ==
    /\ d_kind = "input"
    /\ d_kind' = "fast"
    /\ d_index' = get_delay_index(d_ctx, d_k)
    /\ d_delay' = get_delay(d_ctx, d_k)
    /\ UNCHANGED <<d_ctx, d_k>>

\* strategy.get_persistent_delay(d_k) for the strategy of context d_ctx
ApplyGetPersistentDelay ==
    /\ d_kind = "input"
    /\ d_kind' = "persistent"
    /\ d_index' = get_persistent_delay_index(d_ctx, d_k)
    /\ d_delay' = get_persistent_delay(d_ctx, d_k)
    /\ UNCHANGED <<d_ctx, d_k>>

NextDelay ==
    \/ ApplyGetDelay /\ UNCHANGED notDL
    \/ ApplyGetPersistentDelay /\ UNCHANGED notDL

SpecDelay == InitDelay /\ [][NextDelay]_vars

(***************************************************************************)
(* Properties of the reconnection controller.                              *)
(***************************************************************************)
LoopStates == {"fast_sleep", "fast_attempt", "pers_sleep", "pers_attempt"}
InLoop == {h \in Handlers : hpc[h] \in LoopStates}

\* C4: the controller has no terminal failure state: an episode is left only
\* by a successful reconnect, and _handle_disconnection never reaches its
\* give-up branch (is_running = False).
C4_NoTerminalFailure ==
    /\ \A h \in Handlers : hpc[h] # "gave_up"
    /\ episode_exit # "failure"

\* C5: a reconnect attempt that raises counts as one failed attempt: after it
\* the episode is still in progress and the retry loop is at its next sleep.
C5_RaiseIsFailedAttempt ==
    last_outcome = "raise" =>
        /\ is_reconnecting
        /\ \E h \in Handlers : hpc[h] \in {"fast_sleep", "pers_sleep"}

\* C6: a trigger arriving while an episode is in progress starts no second
\* retry loop and leaves attempt counter, persistent cycle, strategy and the
\* reconnecting flag (and the persistent-mode flag and episode count) as they
\* were.
C6_TriggerWhileReconnectingIsNoOp ==
    /\ [](Cardinality(InLoop) <= 1)
    /\ [][ \A h \in Handlers :
             (/\ is_reconnecting
              /\ hpc[h] \in {"idle", "spawned"}
              /\ hpc'[h] \notin {"idle", "spawned"})
             => /\ attempt_count' = attempt_count
                /\ persistent_cycle' = persistent_cycle
                /\ current_strategy' = current_strategy
                /\ is_reconnecting' = is_reconnecting
                /\ is_persistent_mode' = is_persistent_mode
                /\ total_reconnections' = total_reconnections
                /\ hpc'[h] \notin LoopStates
                /\ \A g \in Handlers : g # h => hpc'[g] = hpc[g] ]_vars

\* A trigger was rejected in the middle of the first episode's fast phase.
C6_Witness ==
    /\ is_reconnecting
    /\ total_reconnections = 1
    /\ episode_exit = "none"
    /\ attempt_count >= 2
    /\ \E h \in Handlers : hpc[h] = "gave_up"
    /\ \E g \in Handlers : hpc[g] \in LoopStates

\* C7: persistent mode is entered only when the fast phase is exhausted, that
\* is after exactly max_attempts failed calls of the stub; and with a stub
\* that succeeds on its stubM-th call the controller reports success after
\* exactly stubM calls: success exactly when the stub has returned True, and
\* no call is made after that one.
C7_PersistentAfterExhaustionExactlyMCalls ==
    /\ [](stubM # 0 => stubCalls = stubM)
    /\ [](episode_exit = "success" <=> stubM # 0)
    /\ [](is_persistent_mode => stubCalls >= attempt_count)
    /\ [][ (~is_persistent_mode /\ is_persistent_mode')
             => /\ current_strategy \in ReconnectionContext
                /\ attempt_count' = _get_max_attempts_for_context(current_strategy)
                /\ stubCalls' = attempt_count'
                /\ last_outcome' = "fail" ]_vars

\* Success in persistent mode on the 13th call (10 fast attempts, 3 cycles).
C7_Witness ==
    /\ episode_exit = "success"
    /\ stubM = 13
    /\ stubCalls = 13
    /\ attempt_count = 10
    /\ persistent_cycle = 3
    /\ persistent_recoveries = 1

\* C8: at episode entry the strategy is EMERGENCY whenever
\* has_time_critical_trade() holds, whatever has_open_trade() says; otherwise
\* PRIORITY when has_open_trade() holds; otherwise IDLE; and the fast phase
\* runs with the attempt limit of that strategy.
C8_ContextSelectionAtEntry ==
    /\ [][ (~is_reconnecting /\ is_reconnecting')
             => /\ has_tick => current_strategy' = EMERGENCY_TICKS
                /\ (~has_tick /\ has_open) => current_strategy' = PRIORITY_CONTRACTS
                /\ (~has_tick /\ ~has_open) => current_strategy' = NORMAL_IDLE
                /\ \A h \in Handlers :
                      hpc'[h] \in LoopStates => hctx'[h] = current_strategy' ]_vars
    /\ []((is_reconnecting /\ ~is_persistent_mode)
            => /\ current_strategy \in ReconnectionContext
               /\ attempt_count <= _get_max_attempts_for_context(current_strategy)
               /\ \A h \in InLoop : hctx[h] = current_strategy)

\* An episode entered with both predicates true runs the EMERGENCY strategy.
C8_Witness ==
    /\ is_reconnecting
    /\ has_tick /\ has_open
    /\ current_strategy = EMERGENCY_TICKS
    /\ attempt_count = 1
    /\ stubCalls = 0
    /\ \E h \in Handlers : hpc[h] = "fast_sleep"

\* C9: for every attempt number k >= 1 and every context the delay functions
\* index their schedule inside its bounds: the k-th entry while k does not
\* exceed the schedule length, the last entry from there on.
C9_DelayIndexClamped ==
    /\ d_kind = "fast" =>
          LET s == _get_delays_for_context(d_ctx)
          IN /\ d_index \in 0..(Len(s) - 1)
             /\ d_delay # IndexError
             /\ d_k <= Len(s) => (d_index = d_k - 1 /\ d_delay = s[d_k])
             /\ d_k > Len(s) => (d_index = Len(s) - 1 /\ d_delay = s[Len(s)])
    /\ d_kind = "persistent" =>
          LET s == _get_persistent_delays(d_ctx)
          IN /\ d_index \in 0..(Len(s) - 1)
             /\ d_delay # IndexError
             /\ d_k <= Len(s) => (d_index = d_k - 1 /\ d_delay = s[d_k])
             /\ d_k > Len(s) => (d_index = Len(s) - 1 /\ d_delay = s[Len(s)])

\* Attempt 10 of the EMERGENCY strategy, whose schedule has 7 entries.
C9_Witness ==
    /\ d_kind = "fast"
    /\ d_ctx = EMERGENCY_TICKS
    /\ d_k = 10
    /\ d_index = 6
    /\ d_delay = 100

\* The handlers whose call of reconnect_callback is in flight.
InReconnectCall == {h \in Handlers : hpc[h] \in {"fast_attempt", "pers_attempt"}}

\* C11: at most one reconnection runs at any time: whichever trigger calls
\* _handle_disconnection, at most one invocation is inside the retry loops of
\* start_persistent_reconnection and at most one call of the reconnect
\* collaborator is in flight, and the is_reconnecting flag is set exactly
\* while an invocation is inside the loops.
C11_SingleReconnectionLoop ==
    /\ Cardinality(InLoop) <= 1
    /\ Cardinality(InReconnectCall) <= 1
    /\ is_reconnecting <=> InLoop # {}

\* A reconnect call of the persistent loop is in flight while another
\* trigger has been turned away.
C11_Witness ==
    /\ \E h \in Handlers : hpc[h] = "pers_attempt"
    /\ \E g \in Handlers : hpc[g] = "gave_up"
    /\ is_reconnecting /\ is_persistent_mode

\* A call of reconnect_callback made by the persistent loop returns False:
\* the step from the attempt to the sleep of the next cycle.
PersistentCycleFails(h) == hpc[h] = "pers_attempt" /\ hpc'[h] = "pers_sleep"

\* C34: in persistent mode, after the failed attempt of a cycle whose number
\* is divisible by 3 the context is evaluated again and the strategy is
\* replaced by the strategy of the new context exactly when the context has
\* changed; after the failed attempt of any other cycle the context and the
\* strategy are as they were.
C34_ReevaluationEveryThirdCycle ==
    [][\A h \in Handlers :
          PersistentCycleFails(h) =>
             LET new_context == IF has_tick THEN EMERGENCY_TICKS
                                ELSE IF has_open THEN PRIORITY_CONTRACTS
                                ELSE NORMAL_IDLE
             IN /\ is_persistent_mode
                /\ persistent_cycle' = persistent_cycle + 1
                /\ IF persistent_cycle % 3 = 0 /\ new_context # hctx[h]
                   THEN hctx'[h] = new_context /\ current_strategy' = new_context
                   ELSE hctx'[h] = hctx[h] /\ current_strategy' = current_strategy]_vars

\* An episode entered idle (5 fast attempts) runs the EMERGENCY strategy
\* from the end of its third persistent cycle.
C34_Witness ==
    /\ is_persistent_mode
    /\ attempt_count = 5
    /\ persistent_cycle = 4
    /\ current_strategy = EMERGENCY_TICKS
    /\ \E h \in Handlers : hpc[h] = "pers_sleep" /\ hctx[h] = EMERGENCY_TICKS

\* The step in which start_persistent_reconnection returns True.
EpisodeSucceeds == episode_exit # "success" /\ episode_exit' = "success"

\* C35: an episode that ends in success adds exactly one to
\* successful_reconnections, and one to persistent_recoveries exactly when
\* the success came in persistent mode; no other step changes the two
\* counters; in every state persistent_recoveries <=
\* successful_reconnections <= total_reconnections.
C35_SuccessCounters ==
    /\ [](/\ persistent_recoveries <= successful_reconnections
          /\ successful_reconnections <= total_reconnections)
    /\ [][IF EpisodeSucceeds
          THEN /\ successful_reconnections' = successful_reconnections + 1
               /\ persistent_recoveries' =
                     persistent_recoveries + (IF is_persistent_mode THEN 1 ELSE 0)
          ELSE /\ successful_reconnections' = successful_reconnections
               /\ persistent_recoveries' = persistent_recoveries]_vars

\* An episode has ended in success in persistent mode.
C35_Witness ==
    /\ episode_exit = "success"
    /\ persistent_cycle >= 1
    /\ total_reconnections = 1
    /\ successful_reconnections = 1
    /\ persistent_recoveries = 1

\* start_persistent_reconnection returns from an episode it has run: the
\* handler leaves the retry loops.
EpisodeReturns == \E h \in Handlers : hpc[h] \in LoopStates /\ hpc'[h] \notin LoopStates

\* C40: when start_persistent_reconnection returns from an episode, with
\* success or with an error that escaped the retry loops, is_reconnecting
\* and is_persistent_mode are False and current_strategy is None.
C40_FlagsClearedOnReturn ==
    [][EpisodeReturns =>
          /\ ~is_reconnecting'
          /\ ~is_persistent_mode'
          /\ current_strategy' = NoStrategy]_vars

\* An error has escaped the persistent loop and the flags are cleared.
C40_Witness ==
    /\ episode_exit = "failure"
    /\ last_outcome = "raise"
    /\ persistent_cycle >= 1
    /\ ~is_reconnecting /\ ~is_persistent_mode
    /\ current_strategy = NoStrategy

(***************************************************************************)
(* ConnectionMonitor: quality evaluation and the monitoring loop.          *)
(* Scores are kept doubled (ScoreX2 = 2 * score) so that the penalty       *)
(* last_disconnection_duration / 2 stays an integer.                       *)
(***************************************************************************)
EXCELLENT == "excellent"
GOOD == "good"
FAIR == "fair"
POOR == "poor"
CRITICAL == "critical"
ConnectionQuality == {EXCELLENT, GOOD, FAIR, POOR, CRITICAL}

\* Values the sampled metrics are drawn from.
LatencySamples == {0, 1001, 2001}
UptimeSamples == {100, 80, 60}
ErrorRateSamples == {0, 10}
ReconnectionCountSamples == {0, 7}
LastDisconnectionSamples == {0, 100}

ConnectionMetrics ==
    [latency_ms : LatencySamples,
     uptime_percentage : UptimeSamples,
     error_rate_percentage : ErrorRateSamples,
     reconnection_count : ReconnectionCountSamples,
     last_disconnection_duration : LastDisconnectionSamples]

LatencyPenalty(latency_ms) ==
    IF latency_ms > 2000 THEN 30
    ELSE IF latency_ms > 1000 THEN 20
    ELSE IF latency_ms > 500 THEN 10
    ELSE IF latency_ms > 200 THEN 5
    ELSE 0

ScoreX2(m) ==
    200 - 2 * LatencyPenalty(m.latency_ms)
        - (IF m.uptime_percentage < 95 THEN (95 - m.uptime_percentage) * 2 * 2 ELSE 0)
        - (IF m.error_rate_percentage > 5 THEN m.error_rate_percentage * 3 * 2 ELSE 0)
        - (IF m.reconnection_count > 5 THEN (m.reconnection_count - 5) * 5 * 2 ELSE 0)
        - (IF m.last_disconnection_duration > 60
           THEN Min(30 * 2, m.last_disconnection_duration) ELSE 0)

\* The metrics given to _evaluate_connection_quality on its own: every
\* whole uptime_percentage from 100 - MaxUptimeLoss, a latency of each
\* penalty class.
QualityInputs ==
    [latency_ms : {0, 201, 501, 1001, 2001},
     uptime_percentage : (100 - MaxUptimeLoss)..100,
     error_rate_percentage : ErrorRateSamples,
     reconnection_count : ReconnectionCountSamples,
     last_disconnection_duration : LastDisconnectionSamples]

\* _evaluate_connection_quality with 'score > 70' for GOOD.
_evaluate_connection_quality_above_70(m) ==
    IF ScoreX2(m) >= 90 * 2 THEN EXCELLENT
    ELSE IF ScoreX2(m) > 70 * 2 THEN GOOD
    ELSE IF ScoreX2(m) >= 50 * 2 THEN FAIR
    ELSE IF ScoreX2(m) >= 30 * 2 THEN POOR
    ELSE CRITICAL

_evaluate_connection_quality(m) ==
    IF ScoreX2(m) >= 90 * 2 THEN EXCELLENT
    ELSE IF ScoreX2(m) >= 70 * 2 THEN GOOD
    ELSE IF ScoreX2(m) >= 50 * 2 THEN FAIR
    ELSE IF ScoreX2(m) >= 30 * 2 THEN POOR
    ELSE CRITICAL

\* _check_alerts: a key is added while its condition holds and discarded
\* when it does not.
AlertsAfterCheck(m) ==
    (IF m.latency_ms > 2000 THEN {"high_latency"} ELSE {})
    \cup (IF m.uptime_percentage < 95 THEN {"low_uptime"} ELSE {})
    \cup (IF m.error_rate_percentage > 5 THEN {"high_error_rate"} ELSE {})

\* consecutive_poor_checks after _handle_quality_change(new_quality)
PoorChecksAfterChange(new_quality, checks) ==
    IF new_quality = CRITICAL THEN checks + 1
    ELSE IF new_quality \in {POOR, FAIR} THEN checks + 1
    ELSE 0

\* _handle_quality_change awaits reconnect_callback()
ForcesReconnect(new_quality, checks_after) ==
    new_quality = CRITICAL /\ checks_after >= 3

StartMonitoring ==
    /\ ~is_monitoring
    /\ is_monitoring' = TRUE
    /\ UNCHANGED <<current_quality, consecutive_poor_checks, quality_alerts_sent,
                   history_size, forced_reconnects, fired_now, critical_run>>

StopMonitoring ==
    /\ is_monitoring
    /\ is_monitoring' = FALSE
    /\ UNCHANGED <<current_quality, consecutive_poor_checks, quality_alerts_sent,
                   history_size, forced_reconnects, fired_now, critical_run>>

\* One iteration of _monitoring_loop on the sampled metrics m:
\* _evaluate_connection_quality, _handle_quality_change when the quality
\* differs from current_quality, _check_alerts, _update_history.
MonitorSample(m) ==
    /\ is_monitoring
    /\ history_size < MaxSamples
    /\ LET quality == _evaluate_connection_quality(m)
           changed == quality # current_quality
           checks == IF changed
                     THEN PoorChecksAfterChange(quality, consecutive_poor_checks)
                     ELSE consecutive_poor_checks
           fires == changed /\ ForcesReconnect(quality, checks)
       IN /\ current_quality' = quality
          /\ consecutive_poor_checks' = checks
          /\ forced_reconnects' = IF fires THEN forced_reconnects + 1
                                  ELSE forced_reconnects
          /\ fired_now' = fires
          /\ critical_run' = IF quality = CRITICAL THEN critical_run + 1 ELSE 0
    /\ quality_alerts_sent' = AlertsAfterCheck(m)
    /\ history_size' = Min(history_size + 1, 100)
    /\ UNCHANGED is_monitoring

InitCM == InitRSVars /\ is_connected = FALSE /\ IdleDLVars /\ InitCMVars /\ InitWSVars /\ IdleLGVars /\ InitMPVars

NextCM ==
    \/ StartMonitoring /\ UNCHANGED notCM
    \/ StopMonitoring /\ UNCHANGED notCM
    \/ \E m \in ConnectionMetrics : MonitorSample(m) /\ UNCHANGED notCM

SpecCM == InitCM /\ [][NextCM]_vars

\* C10: the forced-reconnect callback is called only by a sample that is at
\* least the third consecutive one evaluated CRITICAL, and the third
\* consecutive CRITICAL sample does call it.
C10_ForcedReconnectAfterThreeCritical ==
    /\ fired_now => critical_run >= 3
    /\ critical_run = 3 => fired_now

\* _evaluate_connection_quality applied to one ConnectionMetrics: the
\* metrics are drawn at the start, the step evaluates them.
InitQuality ==
    /\ InitRSVars /\ is_connected = FALSE /\ IdleDLVars
    /\ InitWSVars /\ IdleLGVars /\ InitMPVars
    /\ is_monitoring = FALSE
    /\ current_quality = "excellent"
    /\ consecutive_poor_checks = 0
    /\ quality_alerts_sent = {}
    /\ history_size = 0
    /\ forced_reconnects = 0
    /\ fired_now = FALSE
    /\ critical_run = 0
    /\ metrics \in QualityInputs
    /\ score_x2 = 0
    /\ evaluated = "none"

Evaluate ==
    /\ evaluated = "none"
    /\ score_x2' = ScoreX2(metrics)
    /\ evaluated' = _evaluate_connection_quality(metrics)
    /\ UNCHANGED metrics

NextQuality == Evaluate /\ UNCHANGED notQE

SpecQuality == InitQuality /\ [][NextQuality]_vars

\* The band of a score (doubled), as the claim gives it.
BandOf(s2) ==
    IF s2 >= 180 THEN EXCELLENT
    ELSE IF s2 >= 140 THEN GOOD
    ELSE IF s2 >= 100 THEN FAIR
    ELSE IF s2 >= 60 THEN POOR
    ELSE CRITICAL

\* C30: perfect metrics give score 100 and EXCELLENT; an uptime of 80 with
\* the rest perfect gives a penalty of 30, score 70 and GOOD; the band is
\* EXCELLENT from 90, GOOD from 70, FAIR from 50, POOR from 30 and CRITICAL
\* below.
C30_QualityScoreAndBand ==
    evaluated # "none" =>
        /\ metrics = NoMetrics => (score_x2 = 200 /\ evaluated = EXCELLENT)
        /\ metrics = [NoMetrics EXCEPT !.uptime_percentage = 80]
              => (score_x2 = 200 - 2 * 30 /\ evaluated = GOOD)
        /\ evaluated = BandOf(score_x2)

\* An uptime of 80 with the rest perfect has been evaluated GOOD.
C30_Witness ==
    /\ metrics = [NoMetrics EXCEPT !.uptime_percentage = 80]
    /\ evaluated = GOOD

\* C36: the score computed for any sample of the metrics lies between 0
\* and 100 (0 and 200 doubled).
C36_ScoreWithinRange ==
    evaluated # "none" => (0 <= score_x2 /\ score_x2 <= 100 * 2)

(***************************************************************************)
(* WebSocketManager.  One task (rc_pc) connects and reconnects the way     *)
(* _connect_and_setup and _perform_reconnection do; MaxReq tasks call      *)
(* send_request; the read pump is _message_loop.  Timing taken from the    *)
(* code: connect() is preceded by asyncio.sleep(2) (or by the wait on the  *)
(* cancelled pump in disconnect()), the pump polls recv() every second, so *)
(* the previous connection's pump has left its loop when connect() runs.   *)
(***************************************************************************)
Pop(table, key) == [k \in (DOMAIN table) \ {key} |-> table[k]]

Put(table, key, value) ==
    [k \in (DOMAIN table) \cup {key} |-> IF k = key THEN value ELSE table[k]]

\* r's own Future is the one registered under its req_id.
Registered(r) ==
    /\ req_id[r] \in DOMAIN pending_requests
    /\ pending_requests[req_id[r]] = r

\* req_id = int(time.time() * 1000000) + len(self.pending_requests)
NewReqId(now) == now + Cardinality(DOMAIN pending_requests)

\* The peer or the network closes the connection; frames not yet read are
\* lost with it.
PeerClose ==
    /\ websocket = "open"
    /\ websocket' = "closed"
    /\ wire' = {}
    /\ UNCHANGED <<is_connected, is_authorized, pending_requests, clock, pump, rpc, req_id,
                   future, on_socket, answered, rc_pc, resolved, notified, message_count>>

\* send_request up to await self.websocket.send(message_json); time.time()
\* has not gone back since the previous call.
SendRequestBegin(r) ==
    /\ rpc[r] = "idle"
    /\ \A q \in Req : q < r => rpc[q] # "idle"
    /\ IF ~is_connected \/ websocket = "None"
       THEN /\ rpc' = [rpc EXCEPT ![r] = "done"]
            /\ UNCHANGED <<is_connected, pending_requests, clock, req_id, future,
                           on_socket>>
       ELSE IF websocket = "closed"
       THEN /\ is_connected' = FALSE
            /\ rpc' = [rpc EXCEPT ![r] = "done"]
            /\ UNCHANGED <<pending_requests, clock, req_id, future, on_socket>>
       ELSE /\ \E now \in clock..MaxClock :
                 /\ clock' = now
                 /\ req_id' = [req_id EXCEPT ![r] = NewReqId(now)]
                 /\ pending_requests' = Put(pending_requests, NewReqId(now), r)
            /\ future' = [future EXCEPT ![r] = "pending"]
            /\ on_socket' = [on_socket EXCEPT ![r] = TRUE]
            /\ rpc' = [rpc EXCEPT ![r] = "sending"]
            /\ UNCHANGED is_connected
    /\ UNCHANGED <<websocket, is_authorized, pump, wire, answered, rc_pc, resolved,
                   notified, message_count>>

\* send_request is left: finally self.pending_requests.pop(req_id, None);
\* the locals req_id and future (and what is recorded about them) end with
\* the call.
Leaves(r, position) ==
    /\ rpc' = [rpc EXCEPT ![r] = position]
    /\ pending_requests' = Pop(pending_requests, req_id[r])
    /\ req_id' = [req_id EXCEPT ![r] = 0]
    /\ future' = [future EXCEPT ![r] = "none"]
    /\ on_socket' = [on_socket EXCEPT ![r] = FALSE]
    /\ answered' = [answered EXCEPT ![r] = FALSE]
    /\ resolved' = [resolved EXCEPT ![r] = 0]

\* ... with return response or return None
Returns(r) == Leaves(r, "done")

\* ... with an exception that no except clause of send_request catches
Raises(r) == Leaves(r, "raised")

\* await self.websocket.send(...) returns, or raises ConnectionClosed:
\* is_connected = False, return None.
SendRequestWritten(r) ==
    /\ rpc[r] = "sending"
    /\ IF websocket = "open" /\ on_socket[r]
       THEN /\ rpc' = [rpc EXCEPT ![r] = "waiting"]
            /\ UNCHANGED <<is_connected, pending_requests, req_id, future, on_socket,
                           answered, resolved>>
       ELSE /\ Returns(r)
            /\ is_connected' = FALSE
    /\ UNCHANGED <<websocket, is_authorized, clock, pump, wire, rc_pc, notified, message_count>>

\* The venue answers a request it received (possibly after its timeout).
ServerResponds(r) ==
    /\ rpc[r] \in {"waiting", "timing_out"}
    /\ ~answered[r]
    /\ websocket = "open"
    /\ on_socket[r]
    /\ answered' = [answered EXCEPT ![r] = TRUE]
    /\ wire' = wire \cup {req_id[r]}
    /\ UNCHANGED <<is_connected, websocket, is_authorized, pending_requests, clock,
                   pump, rpc, req_id, future, on_socket, rc_pc, resolved, notified, message_count>>

MatchedKeys_all(table, frame_id) == DOMAIN table

\* if req_id in self.pending_requests: future = self.pending_requests.pop(req_id)
MatchedKeys(table, frame_id) ==
    IF frame_id \in DOMAIN table THEN {frame_id} ELSE {}

\* One iteration of _message_loop that receives the frame with req_id f:
\* process_message pops the entry and completes its Future unless it is
\* done; a frame whose req_id is not in the table goes on to message_callback
\* (MessageProcessor.process_message, which counts and dispatches it).
PumpReceives(f) ==
    /\ pump = "reading"
    /\ is_connected
    /\ websocket = "open"
    /\ f \in wire
    /\ wire' = wire \ {f}
    /\ LET keys == MatchedKeys(pending_requests, f)
           hit == {r \in Req : future[r] = "pending"
                                /\ \E k \in keys : pending_requests[k] = r}
       IN /\ pending_requests' = [k \in (DOMAIN pending_requests) \ keys
                                     |-> pending_requests[k]]
          /\ future' = [r \in Req |-> IF r \in hit THEN "result" ELSE future[r]]
          /\ resolved' = [r \in Req |-> IF r \in hit THEN resolved[r] + 1
                                        ELSE resolved[r]]
          /\ message_count' = IF keys = {} THEN message_count + 1
                                           ELSE message_count
    /\ UNCHANGED <<is_connected, websocket, is_authorized, clock, pump, rpc, req_id,
                   on_socket, answered, rc_pc, notified>>

\* asyncio.wait_for returns the response: return response.
ResponseReturned(r) ==
    /\ rpc[r] = "waiting"
    /\ future[r] = "result"
    /\ Returns(r)
    /\ UNCHANGED <<is_connected, websocket, is_authorized, clock, pump, wire, rc_pc,
                   notified, message_count>>

\* The timeout of asyncio.wait_for expires: the Future is cancelled; the
\* waiting task resumes in a later turn of the event loop.
TimeoutFires(r) ==
    /\ rpc[r] = "waiting"
    /\ future[r] = "pending"
    /\ rpc' = [rpc EXCEPT ![r] = "timing_out"]
    /\ future' = [future EXCEPT ![r] = "cancelled"]
    /\ resolved' = [resolved EXCEPT ![r] = resolved[r] + 1]
    /\ UNCHANGED <<is_connected, websocket, is_authorized, pending_requests, clock, pump,
                   wire, req_id, on_socket, answered, rc_pc, notified, message_count>>

\* except asyncio.TimeoutError: return None.
TimeoutReturned(r) ==
    /\ rpc[r] = "timing_out"
    /\ Returns(r)
    /\ UNCHANGED <<is_connected, websocket, is_authorized, clock, pump, wire, rc_pc,
                   notified, message_count>>

\* The Future was cancelled by disconnect(): asyncio.wait_for raises
\* CancelledError, a BaseException, which neither except
\* asyncio.TimeoutError nor except Exception catches: the finally clause
\* runs and the error goes on to the caller.
CancelledReturned(r) ==
    /\ rpc[r] = "waiting"
    /\ future[r] = "cancelled"
    /\ Raises(r)
    /\ UNCHANGED <<is_connected, websocket, is_authorized, clock, pump, wire, rc_pc,
                   notified, message_count>>

\* send_message on a socket that is already closed: is_connected = False,
\* return False.
SendMessageFindsClosed ==
    /\ is_connected
    /\ websocket = "closed"
    /\ is_connected' = FALSE
    /\ UNCHANGED <<websocket, is_authorized, pending_requests, clock, pump, wire, rpc,
                   req_id, future, on_socket, answered, rc_pc, resolved, notified, message_count>>

\* The finally clause of _message_loop: if self.is_connected: mark the
\* transport disconnected and await the disconnection callback, which is
\* TradingBot._handle_disconnection (refused while a reconnection runs).
PumpFinally ==
    IF is_connected
    THEN /\ is_connected' = FALSE
         /\ is_authorized' = FALSE
         /\ notified' = notified + 1
         /\ rc_pc' = IF rc_pc = "idle" THEN "attempt" ELSE rc_pc
    ELSE UNCHANGED <<is_connected, is_authorized, notified, rc_pc>>

\* The while condition of _message_loop is false, or recv() raises
\* ConnectionClosed.
PumpStops ==
    /\ pump = "reading"
    /\ ~is_connected \/ websocket # "open"
    /\ pump' = "stopped"
    /\ PumpFinally
    /\ UNCHANGED <<websocket, pending_requests, clock, wire, rpc, req_id, future,
                   on_socket, answered, resolved, message_count>>

\* message_loop_task.cancel() is delivered: except asyncio.CancelledError,
\* then the finally clause.
PumpCancelled ==
    /\ pump = "cancelling"
    /\ pump' = "stopped"
    /\ PumpFinally
    /\ UNCHANGED <<websocket, pending_requests, clock, wire, rpc, req_id, future,
                   on_socket, answered, resolved, message_count>>

\* A main loop that looked at is_authorized instead of is_connected.
MainLoopDetects_is_authorized ==
    /\ rc_pc = "idle"
    /\ ~is_authorized
    /\ rc_pc' = "attempt"
    /\ UNCHANGED <<is_connected, websocket, is_authorized, pending_requests, clock, pump,
                   wire, rpc, req_id, future, on_socket, answered, resolved, notified,
                   message_count>>

\* The main loop finds the transport disconnected and no reconnection
\* running: asyncio.create_task(self._handle_disconnection()).
MainLoopDetects ==
    /\ rc_pc = "idle"
    /\ ~is_connected
    /\ rc_pc' = "attempt"
    /\ UNCHANGED <<is_connected, websocket, is_authorized, pending_requests, clock, pump,
                   wire, rpc, req_id, future, on_socket, answered, resolved, notified,
                   message_count>>

\* _perform_reconnection: if is_connected: disconnect() up to the wait on the
\* cancelled pump; otherwise straight to asyncio.sleep(2).
ReconnectBegins ==
    /\ rc_pc = "attempt"
    /\ IF is_connected
       THEN /\ is_connected' = FALSE
            /\ is_authorized' = FALSE
            /\ pump' = IF pump = "reading" THEN "cancelling" ELSE pump
            /\ rc_pc' = "disconnecting"
       ELSE /\ rc_pc' = "connect"
            /\ UNCHANGED <<is_connected, is_authorized, pump>>
    /\ UNCHANGED <<websocket, pending_requests, clock, wire, rpc, req_id, future,
                   on_socket, answered, resolved, notified, message_count>>

\* disconnect() after the pump has gone: cancel every Future of the table
\* that is not done, clear the table, close and drop the socket.
DisconnectFinishes ==
    /\ rc_pc = "disconnecting"
    /\ pump # "cancelling"
    /\ LET hit == {r \in Req : Registered(r) /\ future[r] = "pending"}
       IN /\ future' = [r \in Req |-> IF r \in hit THEN "cancelled" ELSE future[r]]
          /\ resolved' = [r \in Req |-> IF r \in hit THEN resolved[r] + 1
                                        ELSE resolved[r]]
    /\ pending_requests' = EmptyTable
    /\ websocket' = "None"
    /\ wire' = {}
    /\ rc_pc' = "connect"
    /\ UNCHANGED <<is_connected, is_authorized, clock, pump, rpc, req_id, on_socket,
                   answered, notified, message_count>>

\* connect(): a new socket and a new _message_loop task, or is_connected =
\* False on any exception.  The table of pending requests is left as it is;
\* no call in progress was written on the new socket.
Connect ==
    /\ rc_pc = "connect"
    /\ pump \notin {"reading", "cancelling"}
    /\ \/ /\ websocket' = "open"
          /\ is_connected' = TRUE
          /\ pump' = "reading"
          /\ wire' = {}
          /\ on_socket' = [r \in Req |-> FALSE]
          /\ notified' = 0
          /\ rc_pc' = "authorize"
       \/ /\ is_connected' = FALSE
          /\ rc_pc' = "attempt"
          /\ UNCHANGED <<websocket, pump, wire, on_socket, notified>>
    /\ UNCHANGED <<is_authorized, pending_requests, clock, rpc, req_id, future,
                   answered, resolved, message_count>>

\* authorize(): its own request is answered with "authorize", or it fails
\* (no response, or an error response); a socket found closed clears
\* is_connected as in send_request.
Authorize ==
    /\ rc_pc = "authorize"
    /\ \/ /\ is_connected /\ websocket = "open" /\ pump = "reading"
          /\ is_authorized' = TRUE
          /\ rc_pc' = "idle"
          /\ UNCHANGED is_connected
       \/ /\ rc_pc' = "attempt"
          /\ is_connected' = IF websocket = "closed" THEN FALSE ELSE is_connected
          /\ UNCHANGED is_authorized
    /\ UNCHANGED <<websocket, pending_requests, clock, pump, wire, rpc, req_id,
                   future, on_socket, answered, resolved, notified, message_count>>

InitWS == InitRSVars /\ is_connected = FALSE /\ IdleDLVars /\ InitCMVars /\ InitWSVars /\ IdleLGVars /\ InitMPVars

\* One step of the transport with the calls of send_request in progress
\* taken from R.
NextWSFor(R) ==
    \/ PeerClose /\ UNCHANGED notWS
    \/ \E r \in R : SendRequestBegin(r) /\ UNCHANGED notWS
    \/ \E r \in R : SendRequestWritten(r) /\ UNCHANGED notWS
    \/ \E r \in R : ServerResponds(r) /\ UNCHANGED notWS
    \/ \E f \in 1..(MaxClock + MaxReq) : PumpReceives(f) /\ UNCHANGED notWS
    \/ \E r \in R : ResponseReturned(r) /\ UNCHANGED notWS
    \/ \E r \in R : TimeoutFires(r) /\ UNCHANGED notWS
    \/ \E r \in R : TimeoutReturned(r) /\ UNCHANGED notWS
    \/ \E r \in R : CancelledReturned(r) /\ UNCHANGED notWS
    \/ SendMessageFindsClosed /\ UNCHANGED notWS
    \/ PumpStops /\ UNCHANGED notWS
    \/ PumpCancelled /\ UNCHANGED notWS
    \/ MainLoopDetects /\ UNCHANGED notWS
    \/ ReconnectBegins /\ UNCHANGED notWS
    \/ DisconnectFinishes /\ UNCHANGED notWS
    \/ Connect /\ UNCHANGED notWS
    \/ Authorize /\ UNCHANGED notWS

NextWS == NextWSFor(Req)

SpecWS == InitWS /\ [][NextWS]_vars

WSTypeOK ==
    /\ websocket \in {"None", "open", "closed"}
    /\ pump \in {"none", "reading", "cancelling", "stopped"}
    /\ rc_pc \in {"idle", "attempt", "disconnecting", "connect", "authorize"}
    /\ DOMAIN pending_requests \subseteq 1..(MaxClock + MaxReq)
    /\ \A k \in DOMAIN pending_requests : pending_requests[k] \in Req
    /\ clock \in 1..MaxClock
    /\ notified \in 0..1

(***************************************************************************)
(* Properties of the transport.                                            *)
(***************************************************************************)
\* The request a frame completed in the step, if any.
CompletedByFrame(r) == future[r] = "pending" /\ future'[r] = "result"

\* C1: every pending request is resolved exactly once, by its response, by
\* its timeout or by cancellation: no Future is resolved twice, a Future is
\* done exactly when it has been resolved, a call that waited returns only
\* after the one resolution of its Future; and each frame
\* the pump reads completes at most one request, which is registered under
\* the req_id the frame carries, and leaves every other Future as it was.
C1_ResolvedExactlyOnce ==
    /\ [](\A r \in Req :
            /\ resolved[r] <= 1
            /\ future[r] \in {"result", "cancelled"} => resolved[r] = 1
            /\ future[r] \in {"none", "pending"} => resolved[r] = 0
            /\ rpc[r] = "timing_out" => future[r] = "cancelled")
    /\ [][\A r \in Req :
            /\ CompletedByFrame(r) =>
                  /\ wire \ wire' = {req_id[r]}
                  /\ Registered(r)
                  /\ \A q \in Req \ {r} : future'[q] = future[q]
            /\ (rpc[r] = "waiting" /\ rpc'[r] \in {"done", "raised"}) =>
                  resolved[r] = 1 /\ future[r] \in {"result", "cancelled"}
            /\ (rpc[r] = "timing_out" /\ rpc'[r] = "done") =>
                  resolved[r] = 1 /\ future[r] = "cancelled"]_vars

\* Two requests are pending at once under different ids, the frame of one
\* has completed it and the other is still waiting.
C1_Witness ==
    \E r \in Req : \E q \in Req \ {r} :
        /\ rpc[r] = "waiting" /\ future[r] = "result" /\ resolved[r] = 1
        /\ rpc[q] = "waiting" /\ future[q] = "pending" /\ resolved[q] = 0
        /\ Registered(q)
        /\ req_id[q] # req_id[r]

\* C2: once the pump of a lost connection has stopped and the transport is
\* marked disconnected, no request that waits for its response is registered
\* as pending any more.
C2_NonePendingAfterDisconnectHandling ==
    (pump = "stopped" /\ ~is_connected) =>
        \A r \in Req : ~(rpc[r] = "waiting" /\ Registered(r) /\ future[r] = "pending")

\* C3: the disconnection notification of a connection is fired at most once
\* and only by a pump that has stopped, and a pump that has stopped has fired
\* it, whoever saw the close first.
C3_NotifiedOncePerLifetime ==
    /\ notified <= 1
    /\ notified = 1 => pump = "stopped"
    /\ pump = "stopped" => notified = 1

\* The pump reads, on the connection the request was written on, the frame
\* with req_id f when no entry of pending_requests has that key: the
\* response to a request whose call has timed out and returned.
LateFrameRead(f) ==
    /\ pump = "reading"
    /\ websocket = "open" /\ websocket' = "open"
    /\ f \in wire
    /\ wire' = wire \ {f}
    /\ f \notin DOMAIN pending_requests

\* C20: a response frame that arrives after its request has timed out and
\* its registration has been removed is dropped: it resolves no Future, no
\* request is resolved a second time, and the frame is not passed on to
\* any handler.
C20_LateResponseDropped ==
    [][\A f \in 1..(MaxClock + MaxReq) :
          LateFrameRead(f) =>
             /\ future' = future
             /\ resolved' = resolved
             /\ pending_requests' = pending_requests
             /\ message_count' = message_count]_vars

\* Call r of send_request takes its req_id in this step.
AssignsReqId(r) == rpc[r] = "idle" /\ rpc'[r] = "sending"

\* The ids assigned before that are still around: the req_id of every call
\* in progress and of every response frame not read yet.
IdsInUse == {req_id[q] : q \in {q \in Req : req_id[q] # 0}} \cup wire

\* C21: the req_id a call of send_request takes is strictly greater than
\* every id assigned before it (those of the calls in progress and of the
\* response frames still in flight), also at the same clock reading and
\* after the table of pending requests has shrunk.
C21_ReqIdStrictlyIncreasing ==
    [][\A r \in Req :
          AssignsReqId(r) => \A id \in IdsInUse : req_id'[r] > id]_vars

\* C22: a transport error is never raised to the caller of send_request:
\* no call ends with an exception, also when its Future is cancelled by
\* disconnect().
C22_NoErrorRaisedToCaller ==
    \A r \in Req : rpc[r] # "raised"

\* _main_loop runs while is_running: every pass ends one of its sleeps and
\* reaches the test of is_connected, so a pass that would start
\* _handle_disconnection is not postponed for ever.
\* The liveness of the main loop is examined with MaxLiveReq calls of
\* send_request at a time.
SpecWSFair ==
    /\ InitWS
    /\ [][NextWSFor(1..MaxLiveReq)]_vars
    /\ WF_vars(MainLoopDetects /\ UNCHANGED notWS)

\* send_request or send_message found the socket closed and cleared
\* is_connected; _message_loop has not noticed the closed socket yet.
SendDetectedLoss ==
    /\ ~is_connected
    /\ websocket = "closed"
    /\ pump = "reading"

DisconnectReturns == rc_pc = "disconnecting" /\ rc_pc' = "connect"

\* C24: when disconnect() returns, the table of pending requests is empty and
\* no Future created by a call of send_request before the close is still
\* pending: every one of them has an outcome (cancelled at the latest).
C24_NothingPendingAfterDisconnect ==
    [][DisconnectReturns =>
          /\ pending_requests' = EmptyTable
          /\ \A r \in Req : future'[r] # "pending"]_vars

\* C39: in every state of the transport, authorized implies connected.
C39_AuthorizedImpliesConnected == is_authorized => is_connected

(***************************************************************************)
(* Contract ledger of TradingBot and ContractRecovery, for one asset.      *)
(* The venue settles a bought contract at some moment (venue[c]); a usable *)
(* response or push frame about c reports venue[c], with buy_price equal   *)
(* to the stake and payout = PayoutPerCent % of it.  Tasks: the main loop  *)
(* buys, the read pump delivers push frames, _result_checker_loop verifies *)
(* expired contracts, one invocation of _handle_disconnection backs up,    *)
(* reconnects and recovers.                                                *)
(***************************************************************************)
RECURSIVE Sum(_, _)
\* sum(f[c] for c in S)
Sum(S, f) ==
    IF S = {} THEN 0
    ELSE LET c == CHOOSE x \in S : TRUE IN f[c] + Sum(S \ {c}, f)

RECURSIVE Pow(_, _)
Pow(b, e) == IF e = 0 THEN 1 ELSE b * Pow(b, e - 1)

RECURSIVE SortedSeq(_)
\* the members of S in increasing order (the order in which they were bought)
SortedSeq(S) ==
    IF S = {} THEN <<>>
    ELSE LET m == CHOOSE x \in S : \A y \in S : x <= y
         IN <<m>> \o SortedSeq(S \ {m})

\* ContractInfo.is_finished for a status value
Finished == {"won", "lost", "sold", "finished"}

is_finished(c) == status[c] \in Finished

\* AssetState.has_active_contracts
has_active_contracts == \E c \in active_contracts : ~is_finished(c)

\* TradingBot._all_contracts_finished over the statuses st and the list act
\* (all() of an empty list is True)
AllFinished(st, act) == \A c \in act : st[c] \in Finished

\* MartingaleRisk._get_entry_amount for amount_type FIXED
_get_entry_amount(sequence) == amount_value * Pow(multiplier, sequence - 1)

\* MartingaleRisk.calculate_amount
calculate_amount ==
    LET final_amount == _get_entry_amount(current_sequence)
    IN IF balance < final_amount THEN 0 ELSE final_amount

\* the payout the venue reports for a won contract of stake a
Payout(a) == (a * PayoutPerCent) \div 100

\* MartingaleRisk.process_operation_result followed by balance += profit
\* (TradingBot._process_operation_result)
_process_operation_result(won, p) ==
    /\ current_sequence' =
          IF won THEN 1
          ELSE IF current_sequence < max_sequence THEN current_sequence + 1
          ELSE 1
    /\ loss_accumulator' =
          IF won THEN 0
          ELSE IF current_sequence < max_sequence THEN loss_accumulator + p
          ELSE 0
    /\ balance' = balance + p

\* TradingBot._process_sequence_result, the contracts' fields being st and
\* pf when it is called: book the operation, drop the finished contracts.
_process_sequence_result(st, pf) ==
    IF active_contracts = {}
    THEN UNCHANGED <<current_sequence, loss_accumulator, balance, active_contracts>>
    ELSE LET total_profit == Sum(active_contracts, pf)
             won == IF dual_entry
                    THEN \E c \in active_contracts : pf[c] > 0
                    ELSE total_profit > 0
         IN /\ _process_operation_result(won, total_profit)
            /\ active_contracts' = {c \in active_contracts : st[c] \notin Finished}

\* What stays as it is when no operation is booked.
NothingBooked ==
    UNCHANGED <<current_sequence, loss_accumulator, balance, active_contracts>>

\* The contract objects something still refers to: the asset's list, the
\* snapshot of ContractRecovery, the local of a suspended
\* _verify_contract_result.
Referenced ==
    active_contracts \cup {monitored_contracts[i] : i \in DOMAIN monitored_contracts}
                     \cup {verifying}

\* The objects CPython frees: bought, not freed yet, referenced by nothing.
Collectable == {c \in Cid : status[c] \notin {"none", "gone"} /\ c \notin Referenced}

recVars == <<monitored_contracts, rec_pc, rec_i, rec_attempt, report,
             contracts_forced_as_loss, updates, backups, operations>>

\* The legs an operation buys.
Legs == IF dual_entry THEN {1, 2} ELSE {1}

\* The contracts of the previous operation that are still referenced once
\* active_contracts.clear() has dropped them.
StillHeld == {monitored_contracts[i] : i \in DOMAIN monitored_contracts} \cup {verifying}

\* _process_signal with a signal: execute_single_operation or
\* execute_dual_operation, the purchases succeeding or not.  clear() frees
\* the previous operation's contracts and the new ones take their place;
\* the model follows an operation only when the previous one is settled at
\* the venue and none of its contracts is held elsewhere.
ExecuteOperation(bought) ==
    LET a == calculate_amount
    IN /\ is_connected
       /\ ~has_active_contracts
       /\ a > 0
       /\ operations < MaxOperations
       /\ Legs \cap StillHeld = {}
       /\ \A c \in Legs : status[c] = "none" \/ venue[c] # "open"
       /\ bought \in {Legs, {}}
       /\ operations' = operations + 1
       /\ active_contracts' = bought
       /\ status' = [c \in Cid |-> IF c \in bought THEN "open"
                                   ELSE IF c \in Legs THEN "none" ELSE status[c]]
       /\ amount' = [c \in Cid |-> IF c \in bought THEN a
                                   ELSE IF c \in Legs THEN 0 ELSE amount[c]]
       /\ profit' = [c \in Cid |-> IF c \in Legs THEN 0 ELSE profit[c]]
       /\ forced_result' = [c \in Cid |-> IF c \in Legs THEN FALSE ELSE forced_result[c]]
       /\ how' = [c \in Cid |-> IF c \in Legs THEN "none" ELSE how[c]]
       /\ venue' = [c \in Cid |-> IF c \in Legs THEN "open" ELSE venue[c]]
       /\ venue_balance' = venue_balance - a * Cardinality(bought)
       /\ UNCHANGED <<dual_entry, current_sequence, loss_accumulator,
                      forced_total_loss, ftl_attr, balance, verifying,
                      monitored_contracts, rec_pc, rec_i, rec_attempt, report,
                      contracts_forced_as_loss, updates, backups>>
       /\ UNCHANGED <<is_connected, notLG>>

\* The venue settles contract c: a won contract is credited its payout.
\* (The venue keeps the stake of a contract the bot has freed until then.)
VenueSettles(c, outcome) ==
    /\ outcome \in {"won", "lost"}
    /\ status[c] # "none"
    /\ venue[c] = "open"
    /\ venue_balance' = venue_balance + (IF outcome = "won" THEN Payout(amount[c]) ELSE 0)
    /\ venue' = [venue EXCEPT ![c] = IF status[c] = "gone" THEN "closed" ELSE outcome]
    /\ amount' = [amount EXCEPT ![c] = IF status[c] = "gone" THEN 0 ELSE @]
    /\ UNCHANGED <<dual_entry, status, profit, forced_result,
                   active_contracts, current_sequence, loss_accumulator,
                   forced_total_loss, ftl_attr, balance, verifying, how, recVars>>
    /\ UNCHANGED <<is_connected, notLG>>

\* The last reference to some contract objects is gone: they are freed.
Collect ==
    /\ Collectable # {}
    /\ status' = [c \in Cid |-> IF c \in Collectable THEN "gone" ELSE status[c]]
    /\ profit' = [c \in Cid |-> IF c \in Collectable THEN 0 ELSE profit[c]]
    /\ forced_result' = [c \in Cid |-> IF c \in Collectable THEN FALSE ELSE forced_result[c]]
    /\ how' = [c \in Cid |-> IF c \in Collectable THEN "none" ELSE how[c]]
    /\ amount' = [c \in Cid |-> IF c \in Collectable /\ venue[c] # "open" THEN 0 ELSE amount[c]]
    /\ venue' = [c \in Cid |-> IF c \in Collectable /\ venue[c] # "open" THEN "closed" ELSE venue[c]]
    /\ UNCHANGED <<dual_entry, venue_balance, active_contracts, current_sequence,
                   loss_accumulator, forced_total_loss, ftl_attr, balance,
                   verifying, recVars>>
    /\ UNCHANGED <<is_connected, notLG>>

\* TradingBot._process_contract_update_internal for a frame about c that
\* reports status st_in: the new status and profit of c.
InternalStatus(st_in) == IF st_in = "won" THEN "won" ELSE "lost"

InternalProfit(c, st_in) ==
    LET buy_price == amount[c]
    IN IF st_in = "won" THEN Payout(amount[c]) - buy_price ELSE 0 - buy_price

\* TradingBot._process_contract_update_internal(contract_data, asset_state)
\* with contract_data about c reporting st_in; by is the origin noted in how.
ProcessInternal(c, st_in, by) ==
    IF c \notin active_contracts \/ is_finished(c)
    THEN /\ UNCHANGED <<status, profit, how>>
         /\ NothingBooked
    ELSE LET st == [status EXCEPT ![c] = InternalStatus(st_in)]
             pf == [profit EXCEPT ![c] = InternalProfit(c, st_in)]
         IN /\ status' = st
            /\ profit' = pf
            /\ how' = [how EXCEPT ![c] = by]
            /\ IF AllFinished(st, active_contracts)
               THEN _process_sequence_result(st, pf)
               ELSE NothingBooked

\* The status a frame about c may carry: "open" until the venue has settled
\* c, then "won", or "lost" or "sold" for a contract that paid nothing.
Reported(c) ==
    IF venue[c] = "won" THEN {"won"}
    ELSE IF venue[c] = "lost" THEN {"lost", "sold"}
    ELSE {"open"}

\* status in sold/won/lost, c in active_contracts and not finished
PushAccepted(c, st_in) ==
    /\ st_in \in {"sold", "won", "lost"}
    /\ c \in active_contracts
    /\ ~is_finished(c)

\* The pump delivers a push frame about c: TradingBot._process_contract_update
PushFrame(c, st_in) ==
    /\ is_connected
    /\ status[c] \notin {"none", "gone"}
    /\ st_in \in Reported(c)
    /\ IF PushAccepted(c, st_in)
       THEN /\ ProcessInternal(c, st_in, "venue")
       ELSE /\ UNCHANGED <<status, profit, how>>
            /\ NothingBooked
    /\ UNCHANGED <<dual_entry, forced_result, amount, venue, venue_balance, forced_total_loss,
                   ftl_attr, verifying, recVars>>
    /\ UNCHANGED <<is_connected, notLG>>

\* _check_pending_results finds c expired: _verify_contract_result up to its
\* await of send_request.  The pass goes through the list in order and
\* the CALL leg, bought first, expires first: the PUT leg is verified
\* only when the CALL leg is finished.
VerifyBegin(c) ==
    /\ verifying = 0
    /\ is_connected
    /\ c \in active_contracts
    /\ ~is_finished(c)
    /\ \A b \in active_contracts : b < c => is_finished(b)
    /\ verifying' = c
    /\ UNCHANGED <<dual_entry, status, profit, forced_result, amount, venue,
                   venue_balance, active_contracts, current_sequence,
                   loss_accumulator, forced_total_loss, ftl_attr, balance, how,
                   recVars>>
    /\ UNCHANGED <<is_connected, notLG>>

\* TradingBot._force_contract_as_loss(c, asset_state)
ForceContractAsLoss(c) ==
    LET st == [status EXCEPT ![c] = "lost"]
        pf == [profit EXCEPT ![c] = 0 - amount[c]]
    IN /\ forced_result' = [forced_result EXCEPT ![c] = TRUE]
       /\ status' = st
       /\ profit' = pf
       /\ how' = [how EXCEPT ![c] = "placeholder"]
       /\ IF AllFinished(st, active_contracts)
          THEN /\ forced_total_loss' = Sum(active_contracts, pf)
               /\ ftl_attr' = TRUE
               /\ _process_sequence_result(st, pf)
          ELSE /\ UNCHANGED <<forced_total_loss, ftl_attr>>
               /\ NothingBooked

\* What the await of a proposal_open_contract request about c may give: a
\* response with the contract's status, or nothing usable (None after a
\* timeout or a failed write, an error frame, an exception), which is all a
\* transport that is not connected gives.
Unusable == "unusable"

Responses(c) == {Unusable} \cup (IF is_connected THEN Reported(c) ELSE {})

\* _verify_contract_result after its await: a usable response goes to
\* _process_contract_update_internal, anything else forces the loss.
VerifyResponse(resp) ==
    /\ verifying # 0
    /\ resp \in Responses(verifying)
    /\ verifying' = 0
    /\ IF resp # Unusable
       THEN /\ ProcessInternal(verifying, resp, "venue")
            /\ UNCHANGED <<forced_result, forced_total_loss, ftl_attr>>
       ELSE /\ ForceContractAsLoss(verifying)
    /\ UNCHANGED <<dual_entry, amount, venue, venue_balance, recVars>>
    /\ UNCHANGED <<is_connected, notLG>>

\* ContractRecovery.backup_state_before_disconnection: the snapshot holds the
\* contracts of active_contracts that are not finished, in list order.
Snapshot == SortedSeq({c \in active_contracts : ~is_finished(c)})

\* The connection drops and the pump (or the main loop) starts
\* TradingBot._handle_disconnection, which runs up to its await of
\* start_persistent_reconnection.
HandleDisconnectionBackup ==
    /\ rec_pc = "idle"
    /\ is_connected
    /\ is_connected' = FALSE
    /\ backups < MaxEpisodes
    /\ backups' = backups + 1
    /\ monitored_contracts' = Snapshot
    /\ rec_pc' = "reconnecting"
    /\ UNCHANGED <<dual_entry, status, profit, forced_result, amount, venue,
                   venue_balance,
                   active_contracts, current_sequence, loss_accumulator,
                   forced_total_loss, ftl_attr, balance, rec_i, rec_attempt,
                   report, contracts_forced_as_loss,
                   verifying, how,
                   updates>>
    /\ UNCHANGED <<operations, notLG>>

\* start_persistent_reconnection returns True: the transport is connected and
\* authorized again.
ReconnectSucceeds ==
    /\ rec_pc = "reconnecting"
    /\ is_connected' = TRUE
    /\ rec_pc' = "recover"
    /\ UNCHANGED <<dual_entry, status, profit, forced_result, amount, venue,
                   venue_balance,
                   active_contracts, current_sequence, loss_accumulator,
                   forced_total_loss, ftl_attr, balance, monitored_contracts,
                   rec_i, rec_attempt, report,
                   contracts_forced_as_loss, verifying, how, updates>>
    /\ UNCHANGED <<backups, operations, notLG>>

\* The report of recover_lost_contracts on an empty snapshot.
EmptyReport_one_failed ==
    [total_contracts |-> 0, recovered |-> 0, failed |-> 1, total_profit |-> 0]

EmptyReport ==
    [total_contracts |-> 0, recovered |-> 0, failed |-> 0, total_profit |-> 0]

\* recover_lost_contracts up to its first await: return at once on an empty
\* snapshot, otherwise start the loop with the first contract's first query.
RecoverBegin ==
    /\ rec_pc = "recover"
    /\ IF Len(monitored_contracts) = 0
       THEN /\ report' = EmptyReport
            /\ rec_pc' = "update_balance"
            /\ UNCHANGED <<rec_i, rec_attempt, updates>>
       ELSE /\ report' = [total_contracts |-> Len(monitored_contracts),
                          recovered |-> 0, failed |-> 0, total_profit |-> 0]
            /\ rec_pc' = "query"
            /\ rec_i' = 1
            /\ rec_attempt' = 0
            /\ updates' = [c \in Cid |-> 0]
    /\ UNCHANGED <<dual_entry, status, profit, forced_result, amount, venue,
                   venue_balance,
                   active_contracts, current_sequence, loss_accumulator,
                   forced_total_loss, ftl_attr, balance, monitored_contracts,
                   contracts_forced_as_loss, verifying, how>>
    /\ UNCHANGED <<backups, operations, is_connected, notLG>>

\* ContractRecovery._calculate_contract_profit(contract c, contract_data
\* reporting st_in)
_calculate_contract_profit_stake_only(c, st_in) == 0 - amount[c]

_calculate_contract_profit(c, st_in) ==
    LET buy_price == amount[c]
    IN IF st_in = "won" THEN Payout(amount[c]) - buy_price ELSE 0 - buy_price

\* TradingBot._correct_results_after_recovery with the contracts' profits pf.
\* hasattr is always true (the dataclass default is a class attribute); the
\* second delattr raises AttributeError, a forced total of None raises
\* TypeError at the subtraction: both leave balance and sequence alone.
CorrectionRaises == ~ftl_attr \/ forced_total_loss = None

_correct_results_after_recovery(pf) ==
    LET real_total == Sum(active_contracts, pf)
        forced_total == forced_total_loss
        operation_won == IF dual_entry
                         THEN \E c \in active_contracts : pf[c] > 0
                         ELSE real_total > 0
    IN /\ ftl_attr' = FALSE
       /\ forced_total_loss' = None
       /\ IF CorrectionRaises
          THEN UNCHANGED <<balance, current_sequence, loss_accumulator>>
          ELSE /\ balance' = balance + (real_total - forced_total)
               /\ IF operation_won /\ current_sequence > 1
                  THEN current_sequence' = 1 /\ loss_accumulator' = 0
                  ELSE UNCHANGED <<current_sequence, loss_accumulator>>

\* Whether the callback for c reaches the correction, the statuses being st.
ReachesCorrection(c, st) ==
    /\ c \in active_contracts
    /\ forced_result[c]
    /\ AllFinished(st, active_contracts)

\* TradingBot._process_contract_recovery_update(c, data), the contract's
\* fields being st and pf (the callback receives the very object it updates).
_process_contract_recovery_update(c, st, pf) ==
    /\ updates' = [updates EXCEPT ![c] = @ + 1]
    /\ forced_result' = IF c \in active_contracts
                        THEN [forced_result EXCEPT ![c] = FALSE]
                        ELSE forced_result
    /\ IF ReachesCorrection(c, st)
       THEN _correct_results_after_recovery(pf)
       ELSE UNCHANGED <<forced_total_loss, ftl_attr, balance, current_sequence,
                        loss_accumulator>>

\* The loop of recover_lost_contracts goes on to the next contract or returns.
RecoverAdvance ==
    IF rec_i < Len(monitored_contracts)
    THEN /\ rec_i' = rec_i + 1
         /\ rec_attempt' = 0
         /\ rec_pc' = "query"
    ELSE /\ rec_pc' = "update_balance"
         /\ UNCHANGED <<rec_i, rec_attempt>>

\* recover_lost_contracts, a contract given up: failed_count += 1 and
\* total_profit -= original_amount; rep holds the loop's counts.
CountFailed_profit_kept(rep, original_amount) == [rep EXCEPT !.failed = @ + 1]

CountFailed(rep, original_amount) ==
    [rep EXCEPT !.failed = @ + 1, !.total_profit = @ - original_amount]

\* Whether the attempts are used up when one more query has failed.
AttemptsExhausted == rec_attempt + 1 >= max_recovery_attempts

\* One query of _recover_single_contract for monitored_contracts[rec_i]
\* returns, and the loop of recover_lost_contracts runs on to its next
\* await.
RecoverResponse(resp) ==
    LET c == monitored_contracts[rec_i] IN
    /\ rec_pc = "query"
    /\ resp \in Responses(c)
    /\ IF resp \in {"sold", "won", "lost"}
       THEN LET p == _calculate_contract_profit(c, resp)
                st == [status EXCEPT ![c] = IF p > 0 THEN "won" ELSE "lost"]
                pf == [profit EXCEPT ![c] = p]
            IN /\ status' = st
               /\ profit' = pf
               /\ report' = [report EXCEPT !.recovered = @ + 1,
                                           !.total_profit = @ + p]
               /\ how' = [how EXCEPT ![c] = "venue"]
               /\ _process_contract_recovery_update(c, st, pf)
               /\ RecoverAdvance
               /\ UNCHANGED contracts_forced_as_loss
       ELSE IF resp = "open"
       THEN /\ report' = [report EXCEPT !.recovered = @ + 1]
            /\ _process_contract_recovery_update(c, status, profit)
            /\ RecoverAdvance
            /\ UNCHANGED <<status, profit, how, contracts_forced_as_loss>>
       ELSE IF ~AttemptsExhausted
       THEN /\ rec_attempt' = rec_attempt + 1
            /\ UNCHANGED <<status, profit, forced_result, how, report, rec_pc,
                           rec_i, updates, contracts_forced_as_loss,
                           forced_total_loss, ftl_attr, balance,
                           current_sequence, loss_accumulator>>
       ELSE /\ status' = [status EXCEPT ![c] = "finished"]
            /\ profit' = [profit EXCEPT ![c] = 0 - amount[c]]
            /\ report' = CountFailed(report, amount[c])
            /\ contracts_forced_as_loss' = contracts_forced_as_loss + 1
            /\ how' = [how EXCEPT ![c] = "placeholder"]
            /\ RecoverAdvance
            /\ UNCHANGED <<forced_result, updates, forced_total_loss, ftl_attr,
                           balance, current_sequence, loss_accumulator>>
    /\ UNCHANGED <<dual_entry, amount, venue, venue_balance, active_contracts,
                   monitored_contracts, verifying>>
    /\ UNCHANGED <<backups, operations, is_connected, notLG>>

\* _handle_disconnection after the recovery: _update_balance overwrites the
\* balance with the venue's when the request is answered; the handler
\* returns and its locals (the report, the loop's position) are gone.
UpdateBalance(usable) ==
    /\ rec_pc = "update_balance"
    /\ usable => is_connected
    /\ balance' = IF usable THEN venue_balance ELSE balance
    /\ rec_pc' = "idle"
    /\ report' = NoReport
    /\ rec_i' = 0
    /\ rec_attempt' = 0
    /\ updates' = [c \in Cid |-> 0]
    /\ UNCHANGED <<dual_entry, status, profit, forced_result, amount, venue,
                   venue_balance,
                   active_contracts, current_sequence, loss_accumulator,
                   forced_total_loss, ftl_attr, monitored_contracts,
                   contracts_forced_as_loss, verifying, how>>
    /\ UNCHANGED <<backups, operations, is_connected, notLG>>

InitLedger ==
    /\ InitRSVars /\ IdleDLVars /\ InitCMVars /\ InitWSVars /\ InitMPVars
    /\ is_connected = TRUE
    /\ \E dual \in BOOLEAN : LGVarsAtStart(dual)

FrameStatus == {"open", "won", "lost", "sold"}

\* CPython frees an object the moment its last reference goes: nothing
\* else runs before Collect.
NextLedger ==
    \/ Collect
    \/ /\ Collectable = {}
       /\ \/ \E bought \in SUBSET Cid : ExecuteOperation(bought)
          \/ \E c \in Cid, outcome \in {"won", "lost"} : VenueSettles(c, outcome)
          \/ \E c \in Cid, st_in \in FrameStatus : PushFrame(c, st_in)
          \/ \E c \in Cid : VerifyBegin(c)
          \/ \E resp \in FrameStatus \cup {Unusable} : VerifyResponse(resp)
          \/ HandleDisconnectionBackup
          \/ ReconnectSucceeds
          \/ RecoverBegin
          \/ \E resp \in FrameStatus \cup {Unusable} : RecoverResponse(resp)
          \/ \E usable \in BOOLEAN : UpdateBalance(usable)

SpecLedger == InitLedger /\ [][NextLedger]_vars

LedgerTypeOK ==
    /\ dual_entry \in BOOLEAN
    /\ status \in [Cid -> {"none", "open", "gone"} \cup Finished]
    /\ forced_result \in [Cid -> BOOLEAN]
    /\ venue \in [Cid -> {"open", "won", "lost", "closed"}]
    /\ active_contracts \subseteq Cid
    /\ current_sequence \in 1..max_sequence
    /\ forced_total_loss \in Int
    /\ rec_pc \in {"idle", "reconnecting", "recover", "query", "update_balance"}
    /\ rec_attempt \in 0..(max_recovery_attempts - 1)
    /\ verifying \in Cid \cup {0}

(***************************************************************************)
(* Properties of the ledger and of the recovery.                           *)
(***************************************************************************)
\* The contract whose query the recovery loop is waiting for.
Current == monitored_contracts[rec_i]

\* A step of RecoverResponse that gives up on the current contract and
\* forces it: the only ledger step that counts a forced loss.
RecoveryForces == contracts_forced_as_loss' # contracts_forced_as_loss

\* A step of RecoverResponse in which contract_update_callback is called for
\* the current contract (the venue answered with a known status).
RecoveryNotifies ==
    /\ rec_pc = "query"
    /\ updates'[Current] = updates[Current] + 1

\* ... and the venue's answer was a finished status (the loop adds the
\* contract's profit, never 0, to total_profit)
RecoveryRecordsResult ==
    /\ RecoveryNotifies
    /\ report'.total_profit # report.total_profit

\* ... and the venue's answer was "open"
RecoveryFindsOpen ==
    /\ RecoveryNotifies
    /\ report'.total_profit = report.total_profit

\* C12: when recover() forces a snapshotted position, the three query
\* attempts are used up, the forced count goes up by one, the position's
\* status is finished, its profit is -amount and its forced-result flag is
\* true.
C12_ForcedAfterNAttempts ==
    [][RecoveryForces =>
          /\ rec_attempt = max_recovery_attempts - 1
          /\ contracts_forced_as_loss' = contracts_forced_as_loss + 1
          /\ status'[Current] = "finished"
          /\ profit'[Current] = 0 - amount[Current]
          /\ forced_result'[Current] = TRUE]_vars

\* C13: in every reachable state a contract whose forced-result flag is true
\* holds the placeholder loss (status lost, profit -amount, written by the
\* forcing and by nothing since); a contract whose status and profit were
\* recorded from the venue's report has the flag false.
C13_ForcedFlagOnlyOnPlaceholder ==
    \A c \in Cid :
        forced_result[c] =>
            /\ how[c] = "placeholder"
            /\ status[c] = "lost"
            /\ profit[c] = 0 - amount[c]

\* The profits of the operation's contracts add up to this.
OperationTotal(pf) == Sum(Legs, pf)

\* A step of the recovery that records the venue's real result on a contract
\* holding a forced loss, after which every contract of the operation is
\* finished.
RecoveryConfirmsForced ==
    /\ RecoveryRecordsResult
    /\ forced_result[Current]
    /\ \A c \in Legs : status'[c] \in Finished

\* C14: when the recovery records a confirmed real result on a position that
\* was forced and all positions of the operation are then finished, the
\* balance changes by exactly real_total_profit - forced_total_profit.
C14_CorrectionAppliedToBalance ==
    [][RecoveryConfirmsForced =>
          balance' = balance + (OperationTotal(profit') - OperationTotal(profit))]_vars

\* C15: when that correction turns an operation booked as a forced loss into
\* a net win, the sequence counter is reset to 1 and the loss accumulator is
\* cleared.
C15_SequenceResetOnCorrectedWin ==
    [][(/\ RecoveryConfirmsForced
        /\ OperationTotal(profit) < 0
        /\ OperationTotal(profit') > 0) =>
          /\ current_sequence' = 1
          /\ loss_accumulator' = 0]_vars

\* The steps the bot's own tasks take when they are scheduled: the pump
\* delivers the frames it receives, awaited requests return, the handler of
\* the disconnection runs on.  Buying, settling, expiry and the loss of
\* the connection are up to the market and the network.
LedgerProgress ==
    \/ Collect
    \/ /\ Collectable = {}
       /\ \/ \E c \in Cid, st_in \in FrameStatus : PushFrame(c, st_in)
          \/ \E resp \in FrameStatus \cup {Unusable} : VerifyResponse(resp)
          \/ ReconnectSucceeds
          \/ RecoverBegin
          \/ \E resp \in FrameStatus \cup {Unusable} : RecoverResponse(resp)
          \/ \E usable \in BOOLEAN : UpdateBalance(usable)

SpecLedgerFair == SpecLedger /\ WF_vars(LedgerProgress)

\* Contract c holds a forced loss that advanced the sequence, the venue has
\* settled it as won, and the connection is up: the push frame reporting
\* "won" can be delivered.
ForcedButWon(c) ==
    /\ forced_result[c]
    /\ how[c] = "placeholder"
    /\ venue[c] = "won"
    /\ current_sequence > 1
    /\ is_connected

C17_FinishedStatusRecorded ==
    [][RecoveryRecordsResult =>
          LET c == Current
              buy_price == amount[c]
          IN /\ profit'[c] = IF venue[c] = "won"
                             THEN Payout(amount[c]) - buy_price
                             ELSE 0 - buy_price
             /\ status'[c] = (IF venue[c] = "won" THEN "won" ELSE "lost")
             /\ status'[c] \in Finished
             /\ report'.total_profit = report.total_profit + profit'[c]
             /\ report'.recovered = report.recovered + 1
             /\ updates[c] = 0 /\ updates'[c] = 1
             /\ contracts_forced_as_loss' = contracts_forced_as_loss
             /\ report'.failed = report.failed
             /\ forced_result'[c] => forced_result[c]
             /\ ~forced_result[c] =>
                   /\ ~forced_result'[c]
                   /\ UNCHANGED <<balance, current_sequence, loss_accumulator,
                                  forced_total_loss, ftl_attr>>]_vars

\* Scenario A: a stake of 100 recovered as won with payout 195: profit +95,
\* one notification, nothing forced.
C17_Witness ==
    \E c \in Cid :
        /\ status[c] = "won" /\ profit[c] = 95 /\ amount[c] = 100
        /\ how[c] = "venue" /\ updates[c] = 1 /\ ~forced_result[c]
        /\ report.recovered = 1 /\ report.total_profit = 95
        /\ report.failed = 0 /\ contracts_forced_as_loss = 0

\* The step with which recover_lost_contracts leaves its entry.
RecoverEnters == rec_pc = "recover" /\ rec_pc' # "recover"

\* C18: recover() on an empty snapshot sends no request, changes no
\* position, no counter and no balance, and returns a report with zero
\* total, recovered, failed and profit.
C18_EmptySnapshotNoOp ==
    [][(RecoverEnters /\ Len(monitored_contracts) = 0) =>
          /\ report' = [total_contracts |-> 0, recovered |-> 0,
                        failed |-> 0, total_profit |-> 0]
          /\ rec_pc' = "update_balance"
          /\ UNCHANGED <<status, profit, forced_result, amount,
                         active_contracts, current_sequence, loss_accumulator,
                         forced_total_loss, ftl_attr, balance, venue_balance,
                         monitored_contracts, contracts_forced_as_loss,
                         updates, rec_i, rec_attempt, verifying>>]_vars

\* recover() has returned its report on an empty snapshot.
C18_Witness ==
    /\ rec_pc = "update_balance"
    /\ Len(monitored_contracts) = 0
    /\ backups = 1
    /\ report.total_contracts = 0 /\ report.recovered = 0
    /\ report.failed = 0 /\ report.total_profit = 0

\* C19: a snapshotted position that the venue reports as still open is left
\* pending by recover(): its status stays what it was (open when it was
\* snapshotted), its profit and its forced-result flag are unchanged,
\* nothing is forced and no failure is counted.
C19_OpenPositionLeftPending ==
    [][RecoveryFindsOpen =>
          LET c == Current
          IN /\ status'[c] = status[c]
             /\ profit'[c] = profit[c]
             /\ forced_result'[c] = forced_result[c]
             /\ contracts_forced_as_loss' = contracts_forced_as_loss
             /\ report'.failed = report.failed]_vars

\* The recovery loop turns to a contract of the snapshot and sends its first
\* query: at the start of the loop and after each contract.
RecoveryVisits == rec_pc' = "query" /\ (rec_pc # "query" \/ rec_i' # rec_i)

\* A query of the recovery loop returns.
RecoveryQueryReturns ==
    /\ rec_pc = "query"
    /\ rec_pc' # "query" \/ rec_i' # rec_i \/ rec_attempt' # rec_attempt

\* C31: recover() queries and updates only the positions of the snapshot
\* that are still open when it visits them: it does not query a position
\* that another path has finished since the snapshot, and it does not
\* overwrite or force a position it finds finished.
C31_OnlyOpenPositionsVisited ==
    [][/\ RecoveryVisits => status'[monitored_contracts'[rec_i']] \notin Finished
       /\ (RecoveryQueryReturns /\ status[Current] \in Finished) =>
             /\ status'[Current] = status[Current]
             /\ profit'[Current] = profit[Current]
             /\ contracts_forced_as_loss' = contracts_forced_as_loss]_vars

\* The step of _handle_disconnection that takes the snapshot.
TakesSnapshot == backups' = backups + 1

\* C32: the snapshot is taken when the disconnection is handled, before any
\* reconnection attempt, and holds exactly the positions open at that
\* moment; once recover() has finished it holds no position.
C32_SnapshotClearedAfterRecovery ==
    /\ [][TakesSnapshot =>
             /\ rec_pc = "idle" /\ rec_pc' = "reconnecting"
             /\ {monitored_contracts'[i] : i \in DOMAIN monitored_contracts'}
                   = {c \in active_contracts : status[c] = "open"}
             /\ Len(monitored_contracts')
                   = Cardinality({c \in active_contracts : status[c] = "open"})]_vars
    /\ []((rec_pc = "update_balance" \/ (rec_pc = "idle" /\ backups > 0))
             => Len(monitored_contracts) = 0)

\* C37: the report of recover() agrees with what the call did.  Every
\* position of the snapshot is counted once, as recovered or as failed; it
\* is counted as failed exactly when the call forces it as a loss; the
\* profit the call assigns to it (none when the venue says it is still
\* open) is added to total_profit.  Hence recovered + failed is the number
\* of positions of the snapshot when the report is returned.
C37_ReportConsistent ==
    /\ [][(rec_pc = "query" /\ report' # report) =>
             LET c == Current
                 forces == contracts_forced_as_loss' = contracts_forced_as_loss + 1
                 added == report'.total_profit - report.total_profit
             IN /\ report'.recovered + report'.failed
                      = report.recovered + report.failed + 1
                /\ report'.total_contracts = report.total_contracts
                /\ (report'.failed = report.failed + 1) <=> forces
                /\ forces => (status'[c] = "finished" /\ profit'[c] = 0 - amount[c])
                /\ \/ /\ status'[c] \in Finished
                      /\ added = profit'[c]
                   \/ /\ status'[c] = status[c] /\ profit'[c] = profit[c]
                      /\ ~forces
                      /\ added = 0]_vars
    /\ [](rec_pc = "update_balance" =>
             /\ report.total_contracts = Len(monitored_contracts)
             /\ report.recovered + report.failed = report.total_contracts
             /\ backups = 1 => report.failed = contracts_forced_as_loss)

\* recover() has returned the report of a dual operation of which one
\* position was recovered as won and the other forced.
C37_Witness ==
    /\ rec_pc = "update_balance"
    /\ report.total_contracts = 2
    /\ report.recovered = 1 /\ report.failed = 1
    /\ report.total_profit = 95 - 100
    /\ contracts_forced_as_loss = 1

\* A step after which every contract of the operation is finished, one of
\* them having been open before it.
OperationFinishes ==
    /\ \E c \in active_contracts : status[c] \notin Finished
    /\ \A c \in active_contracts : status'[c] \in Finished

\* MartingaleRisk.process_operation_result as the claim gives it: level 1
\* after a win, the next level after a loss, level 1 after a loss at the
\* maximum level.
SequenceAfter(won) ==
    IF won THEN 1
    ELSE IF current_sequence < max_sequence THEN current_sequence + 1
    ELSE 1

\* C38: every operation whose positions have all become finished, by a push
\* frame, by result verification, by a forced loss or by the recovery, has
\* its result applied to the risk sequence exactly once: in the step that
\* finishes its last position, and in no other step.
C38_SequenceAppliedExactlyOnce ==
    [][/\ OperationFinishes =>
             LET won == IF dual_entry
                        THEN \E c \in active_contracts : profit'[c] > 0
                        ELSE Sum(active_contracts, profit') > 0
             IN current_sequence' = SequenceAfter(won)
       /\ ~OperationFinishes =>
             /\ current_sequence' = current_sequence
             /\ loss_accumulator' = loss_accumulator]_vars
(***************************************************************************)
(* MessageProcessor: classification of a decoded frame and its dispatch to *)
(* the callbacks (message_processor.py).                                   *)
(***************************************************************************)

\* The keys _identify_message_type looks for.
Keys == {"tick", "proposal_open_contract", "balance", "authorize", "error",
         "ping", "pong", "website_status", "time", "buy", "sell", "proposal",
         "msg_type"}

\* Values of data["msg_type"]: the name of a type that has a callback, a
\* name of the initial ignore-set, another name, and a value that is not
\* hashable (a JSON array or object).
TagValues == {"tick", "ping", "history", "unhashable"}

RECURSIVE KeySetsUpTo(_, _)
KeySetsUpTo(K, n) ==
    IF n = 0 THEN {{}}
    ELSE LET smaller == KeySetsUpTo(K, n - 1)
         IN smaller \cup {S \cup {k} : S \in smaller, k \in K}

\* The decoded frames with at most MaxKeys keys, all of them in K.
FramesOver(K) ==
    {f \in [keys : KeySetsUpTo(K, MaxKeys), tag : TagValues \cup {"none"}] :
        (f.tag = "none") <=> ("msg_type" \notin f.keys)}

Frames == FramesOver(Keys)

\* The frames given to process_message: a key of three of the types that
\* have a callback, a heartbeat and the type tag.
DispatchKeys == {"tick", "balance", "error", "ping", "msg_type"}
DispatchFrames == FramesOver(DispatchKeys)

\* The types that have a callback field, and how a callback ends.
CallbackTypes == {"tick", "contract_update", "balance", "error"}
CallbackOutcomes == {"returns", "Exception", "CancelledError"}

\* The arguments of set_callbacks: none, one, or all four callbacks.
CallbackChoices == {{}, {"tick"}, {"error"}, CallbackTypes}

\* The types given to add_ignored_message_type / remove_ignored_message_type.
ConfiguredTypes == {"tick", "ping"}

\* _identify_message_type with "error" looked for before
\* "proposal_open_contract".
_identify_message_type_error_first(d) ==
    IF "tick" \in d.keys THEN "tick"
    ELSE IF "error" \in d.keys THEN "error"
    ELSE IF "proposal_open_contract" \in d.keys THEN "contract_update"
    ELSE IF "balance" \in d.keys THEN "balance"
    ELSE IF "authorize" \in d.keys THEN "authorize"
    ELSE IF "ping" \in d.keys \/ "pong" \in d.keys THEN "ping_pong"
    ELSE IF "website_status" \in d.keys THEN "website_status"
    ELSE IF "time" \in d.keys THEN "server_time"
    ELSE IF "buy" \in d.keys \/ "sell" \in d.keys \/ "proposal" \in d.keys
         THEN "trading"
    ELSE IF "msg_type" \in d.keys THEN d.tag
    ELSE "unknown"

_identify_message_type(d) ==
    IF "tick" \in d.keys THEN "tick"
    ELSE IF "proposal_open_contract" \in d.keys THEN "contract_update"
    ELSE IF "balance" \in d.keys THEN "balance"
    ELSE IF "authorize" \in d.keys THEN "authorize"
    ELSE IF "error" \in d.keys THEN "error"
    ELSE IF "ping" \in d.keys \/ "pong" \in d.keys THEN "ping_pong"
    ELSE IF "website_status" \in d.keys THEN "website_status"
    ELSE IF "time" \in d.keys THEN "server_time"
    ELSE IF "buy" \in d.keys \/ "sell" \in d.keys \/ "proposal" \in d.keys
         THEN "trading"
    ELSE IF "msg_type" \in d.keys THEN d.tag
    ELSE "unknown"

\* The key whose value is handed to the callback of a type.
PayloadKey(t) ==
    CASE t = "tick" -> "tick"
      [] t = "contract_update" -> "proposal_open_contract"
      [] t = "balance" -> "balance"
      [] t = "error" -> "error"

\* 'if message_type in self.ignored_message_types: return', with the set
\* as it was constructed.
Ignored_as_constructed(t) == t \in {"website_status", "msg_type", "pong", "ping"}

\* if message_type in self.ignored_message_types: return
Ignored(t) == t \in ignored_message_types

\* _dispatch_message: the callbacks awaited for a frame of type t.  The
\* branch of the if / elif chain is chosen by the type and the callback
\* field; reading data[key] for a key the frame does not have raises
\* KeyError before the callback is called.
Awaited(t, d) ==
    IF t \in CallbackTypes /\ t \in callbacks /\ PayloadKey(t) \in d.keys
    THEN <<t>> ELSE <<>>

\* process_message(data) / _process_single_message, with callback outcome h
\* for the callback it awaits.  message_stats[message_type] raises TypeError
\* for a type that is not hashable: the outer except counts it.  An
\* Exception of the callback is caught and logged by _dispatch_message; a
\* CancelledError is a BaseException and passes both except clauses.  What
\* follows the await of the callback changes no field.  (h is "returns"
\* when no callback is awaited.)
ProcessMessage(d, h) ==
    /\ message_count < MaxFrames
    /\ (Ignored(_identify_message_type(d)) \/ Awaited(_identify_message_type(d), d) = <<>>)
          => h = "returns"
    /\ message_count' = message_count + 1
    /\ data' = d
    /\ LET t == _identify_message_type(d)
       IN /\ message_type' = t
          /\ IF t = "unhashable"
             THEN /\ error_count' = error_count + 1
                  /\ invoked' = <<>>
                  /\ raised' = "none"
                  /\ propagated' = "none"
                  /\ UNCHANGED message_stats
             ELSE /\ message_stats' =
                        [u \in DOMAIN message_stats \cup {t} |->
                            IF u = t
                            THEN (IF t \in DOMAIN message_stats
                                  THEN message_stats[t] ELSE 0) + 1
                            ELSE message_stats[u]]
                  /\ UNCHANGED error_count
                  /\ IF Ignored(t)
                     THEN /\ invoked' = <<>>
                          /\ raised' = "none"
                          /\ propagated' = "none"
                     ELSE /\ invoked' = Awaited(t, d)
                          /\ raised' = IF h = "returns" THEN "none" ELSE h
                          /\ propagated' =
                                IF h = "CancelledError"
                                THEN "CancelledError" ELSE "none"
    /\ UNCHANGED <<ignored_message_types, callbacks>>

\* set_callbacks
SetCallbacks(S) ==
    /\ callbacks' = S
    /\ UNCHANGED <<message_count, error_count, message_stats,
                   ignored_message_types, data, message_type, invoked, raised,
                   propagated>>

\* add_ignored_message_type
AddIgnored(t) ==
    /\ ignored_message_types' = ignored_message_types \cup {t}
    /\ UNCHANGED <<message_count, error_count, message_stats, callbacks,
                   data, message_type, invoked, raised,
                   propagated>>

\* remove_ignored_message_type
RemoveIgnored(t) ==
    /\ ignored_message_types' = ignored_message_types \ {t}
    /\ UNCHANGED <<message_count, error_count, message_stats, callbacks,
                   data, message_type, invoked, raised,
                   propagated>>

\* reset_stats
ResetStats ==
    /\ message_count' = 0
    /\ error_count' = 0
    /\ message_stats' = [t \in {} |-> 0]
    /\ UNCHANGED <<ignored_message_types, callbacks, data, message_type,
                   invoked, raised, propagated>>

InitMP == InitRSVars /\ is_connected = FALSE /\ IdleDLVars /\ InitCMVars /\ InitWSVars /\ IdleLGVars /\ InitMPVars

NextMP ==
    \/ \E d \in DispatchFrames, h \in CallbackOutcomes : ProcessMessage(d, h) /\ UNCHANGED notMP
    \/ \E S \in CallbackChoices : SetCallbacks(S) /\ UNCHANGED notMP
    \/ \E t \in ConfiguredTypes : AddIgnored(t) /\ UNCHANGED notMP
    \/ \E t \in ConfiguredTypes : RemoveIgnored(t) /\ UNCHANGED notMP
    \/ ResetStats /\ UNCHANGED notMP

SpecMP == InitMP /\ [][NextMP]_vars

\* _identify_message_type applied to one frame: the frame is drawn at the
\* start, the step classifies it.
InitClassify ==
    /\ InitRSVars /\ is_connected = FALSE /\ IdleDLVars /\ InitCMVars
    /\ InitWSVars /\ IdleLGVars
    /\ error_count = 0
    /\ message_stats = [t \in {} |-> 0]
    /\ ignored_message_types = {"website_status", "msg_type", "pong", "ping"}
    /\ callbacks = {}
    /\ data \in Frames
    /\ message_type = "none"
    /\ invoked = <<>>
    /\ raised = "none"
    /\ propagated = "none"

Classify ==
    /\ message_type = "none"
    /\ message_type' = _identify_message_type(data)
    /\ UNCHANGED <<message_count, error_count, message_stats,
                   ignored_message_types, callbacks, data, invoked, raised,
                   propagated>>

NextClassify == Classify /\ UNCHANGED notMP

SpecClassify == InitClassify /\ [][NextClassify]_vars

MPTypeOK ==
    /\ error_count \in 0..MaxFrames
    /\ message_count \in 0..MaxFrames
    /\ callbacks \subseteq CallbackTypes
    /\ data \in DispatchFrames \cup {NoFrame}
    /\ Len(invoked) <= 1
    /\ raised \in {"none", "Exception", "CancelledError"}
    /\ propagated \in {"none", "CancelledError"}

\* A call of process_message takes place in this step.
Processes == message_count' = message_count + 1

\* C25: an exception raised by a callback during dispatch is counted
\* (error_count increases by one for the failing call) and does not leave
\* process_message, so that the pump goes on with the next frame.
C25_HandlerExceptionCounted ==
    [][(Processes /\ raised' = "Exception") =>
          /\ error_count' = error_count + 1
          /\ propagated' = "none"]_vars

\* C26: a frame whose type is not ignored has exactly the callback of its
\* type awaited, once, if that callback is set, and none otherwise.
C26_ExactlyOneHandler ==
    [][(Processes /\ message_type' \notin ignored_message_types) =>
          invoked' = IF message_type' \in callbacks
                     THEN <<message_type'>> ELSE <<>>]_vars

\* The order of classification: the keys looked for and the type they give.
ClassificationOrder ==
    << [keys |-> {"tick"}, type |-> "tick"],
       [keys |-> {"proposal_open_contract"}, type |-> "contract_update"],
       [keys |-> {"balance"}, type |-> "balance"],
       [keys |-> {"authorize"}, type |-> "authorize"],
       [keys |-> {"error"}, type |-> "error"],
       [keys |-> {"ping", "pong"}, type |-> "ping_pong"],
       [keys |-> {"website_status"}, type |-> "website_status"],
       [keys |-> {"time"}, type |-> "server_time"],
       [keys |-> {"buy", "sell", "proposal"}, type |-> "trading"] >>

\* The entries of the order that a frame matches.
Matches(d) ==
    {i \in DOMAIN ClassificationOrder : ClassificationOrder[i].keys \cap d.keys # {}}

\* C27: the type of a frame is that of the first entry of the order of which
\* it has a key; with none of them it is the value of its type tag, and
\* "unknown" without a tag.
C27_FirstMatchWins ==
    message_type # "none" =>
        message_type =
            IF Matches(data) # {}
            THEN ClassificationOrder[
                    CHOOSE i \in Matches(data) : \A j \in Matches(data) : i <= j].type
            ELSE IF "msg_type" \in data.keys THEN data.tag
            ELSE "unknown"

\* A frame with a position-status payload and an error has been classified
\* as a position update.
C27_Witness ==
    /\ data.keys = {"proposal_open_contract", "error"}
    /\ message_type = "contract_update"

\* C28: a frame whose type is in ignored_message_types, as the set is when
\* the frame arrives, has no callback awaited; nor has a heartbeat frame; a
\* frame whose type is not (or no longer) in the set is dispatched: the
\* callback of its type is awaited when it is set and the frame has its
\* payload.
C28_IgnoreSetShortCircuits ==
    [][Processes =>
          /\ message_type' \in ignored_message_types => invoked' = <<>>
          /\ message_type' = "ping_pong" => invoked' = <<>>
          /\ (/\ message_type' \notin ignored_message_types
              /\ message_type' \in callbacks
              /\ PayloadKey(message_type') \in data'.keys)
                => invoked' = <<message_type'>>]_vars

\* "tick" has been added to the ignore-set, and the last frame, a tick
\* whose callback is set, had no callback awaited.
C28_Witness ==
    /\ "tick" \in ignored_message_types
    /\ "tick" \in callbacks
    /\ "tick" \in data.keys
    /\ message_count > 0
    /\ invoked = <<>>

(***************************************************************************)
(* The venue's error frames: MessageProcessor hands them to                *)
(* TradingBot._process_api_error, inside the task of the read pump.        *)
(***************************************************************************)
ErrorCodes == {"InvalidToken", "AuthorizationRequired", "RateLimit"}

\* if error_code in ["InvalidToken", "AuthorizationRequired"]
InvalidSession(code) == code \in {"InvalidToken", "AuthorizationRequired"}

\* An error frame as the venue sends it.
ErrorFrame == [keys |-> {"error", "msg_type"}, tag |-> "history"]

\* The episode in progress was started by _process_api_error and has not
\* made its first attempt: the task of the pump is inside the handler, the
\* transport is still marked connected and no new pump exists yet.
PumpInHandler ==
    /\ invoked = <<"error">>
    /\ is_reconnecting
    /\ is_connected
    /\ stubCalls = 0

\* The pump reads an error frame with the given code: process_message
\* classifies and dispatches it, and _process_api_error awaits
\* _handle_disconnection (as handler h) for a code of an invalid session
\* unless a reconnection is running.
VenueError(h, code) ==
    /\ is_connected
    /\ ~PumpInHandler
    /\ hpc[h] = "idle"
    /\ ProcessMessage(ErrorFrame, "returns")
    /\ IF invoked' = <<"error">> /\ InvalidSession(code) /\ ~is_reconnecting
       THEN /\ EpisodeBudget
            /\ HandleDisconnection(h)
            /\ UNCHANGED <<successful_reconnections, persistent_recoveries,
                           is_connected, has_tick, has_open>>
       ELSE UNCHANGED <<rsVars, is_connected>>
    /\ UNCHANGED <<dlVars, cmVars, wsTransport, lgVars, qeVars, tkVars>>

\* is_running is False: _main_loop and _result_checker_loop leave their
\* while loops, asyncio.gather returns and run() goes through _cleanup;
\* asyncio.run then cancels the tasks that are left, the handlers among
\* them (the finally clause of start_persistent_reconnection runs).
RunEnds ==
    /\ ~is_running
    /\ \E h \in Handlers : hpc[h] # "ended"
    /\ hpc' = [h \in Handlers |-> "ended"]
    /\ is_connected' = FALSE
    /\ EpisodeFinally
    /\ UNCHANGED <<attempt_count, persistent_cycle, total_reconnections,
                   successful_reconnections, persistent_recoveries, delay, hctx,
                   is_running, has_tick, has_open, stubM, stubCalls, last_outcome,
                   episode_exit>>

\* TradingBot.__init__ has set the four callbacks of the MessageProcessor.
InitRun ==
    /\ InitRSVars /\ is_connected = TRUE /\ IdleDLVars /\ InitCMVars
    /\ InitWSVars /\ IdleLGVars
    /\ error_count = 0
    /\ message_stats = [t \in {} |-> 0]
    /\ ignored_message_types = {"website_status", "msg_type", "pong", "ping"}
    /\ callbacks = CallbackTypes
    /\ data = NoFrame
    /\ message_type = "none"
    /\ invoked = <<>>
    /\ raised = "none"
    /\ propagated = "none"

\* The steps of the handlers' tasks.
HandlerProgress ==
    \E h \in Handlers :
        \/ HandlerRun(h)
        \/ SleepDone(h)
        \/ AttemptSucceeds(h)
        \/ FastAttemptFails(h)
        \/ PersistentAttemptFails(h)
        \/ HandlerReturns(h)

NextRun ==
    \/ \E h \in Handlers : (~PumpInHandler /\ PumpNotify(h)) /\ UNCHANGED notRS
    \/ SendFindsClosed /\ UNCHANGED notRS
    \/ \E h \in Handlers : MainLoopSpawn(h) /\ UNCHANGED notRS
    \/ ContextChanges /\ UNCHANGED notRS
    \/ HandlerProgress /\ UNCHANGED notRS
    \/ \E h \in Handlers, code \in ErrorCodes : VenueError(h, code)
    \/ RunEnds /\ UNCHANGED notRS

\* The event loop runs every task that can go on, and run() ends once
\* is_running is False.
SpecRunFair ==
    /\ InitRun
    /\ [][NextRun]_vars
    /\ WF_vars(HandlerProgress /\ UNCHANGED notRS)
    /\ WF_vars(RunEnds /\ UNCHANGED notRS)

\* C29: a reconnection episode begun by the error handler for an invalid
\* session eventually completes with the transport connected and authorized
\* again (start_persistent_reconnection returns True).
C29_InvalidSessionLeadsToReconnected ==
    PumpInHandler ~> (episode_exit = "success")

(***************************************************************************)
(* The asyncio tasks of the transport after the setup: the tasks that run  *)
(* WebSocketManager._message_loop, and the tasks in which                  *)
(* TradingBot._handle_disconnection runs: the pump's own task when the     *)
(* pump awaits it (from its finally clause, or from process_message for an *)
(* error frame), or a task created by _main_loop.  What the retry loops of *)
(* the controller do between two attempts is followed in SpecRS; here an   *)
(* episode is the flag is_reconnecting and a sequence of attempts.         *)
(***************************************************************************)
rsRest == <<is_persistent_mode, attempt_count, persistent_cycle, current_strategy,
            total_reconnections, successful_reconnections, persistent_recoveries,
            delay, hpc, hctx, has_tick, has_open, stubM, stubCalls, last_outcome,
            episode_exit>>
wsRest == <<pending_requests, clock, pump, wire, rpc, req_id, future, on_socket,
            answered, rc_pc, resolved, notified, message_count>>
notTK == <<rsRest, wsRest, dlVars, cmVars, lgVars, mpVars, qeVars>>

\* The tasks not created yet, and the next one asyncio.create_task makes.
Free == {t \in Tasks : task_pc[t] = "none"}
NewTask == CHOOSE t \in Free : \A u \in Free : t <= u

\* Where task t goes on when the _handle_disconnection it awaits returns:
\* back into the while loop of _message_loop after process_message, to its
\* end after the finally clause or at the end of a created task.
AfterHandler(context) == IF context = "frame" THEN "reading" ELSE "done"

\* _handle_disconnection in task t, from its first line to its first await;
\* context is where t awaits it.  start_persistent_reconnection returns
\* False at once while a reconnection runs (the handler then clears
\* is_running and returns), otherwise it starts an episode and sleeps.
StartHandler(t, context) ==
    IF is_reconnecting
    THEN /\ is_running' = FALSE
         /\ task_pc' = [task_pc EXCEPT ![t] = AfterHandler(context)]
         /\ hd_pc' = [hd_pc EXCEPT ![t] = "none"]
         /\ UNCHANGED is_reconnecting
    ELSE /\ is_reconnecting' = TRUE
         /\ task_pc' = [task_pc EXCEPT ![t] = context]
         /\ hd_pc' = [hd_pc EXCEPT ![t] = "sleep"]
         /\ UNCHANGED is_running

\* The peer or the network closes the socket.
ConnectionLost ==
    /\ websocket = "open"
    /\ websocket' = "closed"
    /\ UNCHANGED <<is_connected, is_authorized, is_reconnecting, is_running, tkVars>>

\* send_request / send_message find the socket closed: is_connected = False.
SendDetectsClosed ==
    /\ is_connected
    /\ websocket = "closed"
    /\ is_connected' = FALSE
    /\ UNCHANGED <<websocket, is_authorized, is_reconnecting, is_running, tkVars>>

\* _message_loop of task t leaves its while loop (the condition is false or
\* recv() raises ConnectionClosed) and runs its finally clause, which
\* awaits disconnection_callback if is_connected is still set.
LoopEnds(t) ==
    /\ task_pc[t] = "reading"
    /\ ~is_connected \/ websocket # "open"
    /\ IF is_connected
       THEN /\ is_connected' = FALSE
            /\ is_authorized' = FALSE
            /\ StartHandler(t, "finally")
       ELSE /\ task_pc' = [task_pc EXCEPT ![t] = "done"]
            /\ UNCHANGED <<is_connected, is_authorized, is_reconnecting, is_running,
                           hd_pc>>
    /\ UNCHANGED <<websocket, message_loop_task>>

\* _message_loop of task t reads an error frame whose code is InvalidToken or
\* AuthorizationRequired: _process_api_error awaits _handle_disconnection
\* unless a reconnection is running.
ErrorFrameRead(t) ==
    /\ task_pc[t] = "reading"
    /\ is_connected /\ websocket = "open"
    /\ ~is_reconnecting
    /\ StartHandler(t, "frame")
    /\ UNCHANGED <<is_connected, websocket, is_authorized, message_loop_task>>

\* _main_loop: asyncio.create_task(self._handle_disconnection()); the task
\* runs before the loop's next pass.
MainLoopCreatesTask ==
    /\ is_running
    /\ ~is_connected
    /\ ~is_reconnecting
    /\ Free # {}
    /\ \A t \in Tasks : hd_pc[t] # "created"
    /\ task_pc' = [task_pc EXCEPT ![NewTask] = "task"]
    /\ hd_pc' = [hd_pc EXCEPT ![NewTask] = "created"]
    /\ UNCHANGED <<is_connected, websocket, is_authorized, is_reconnecting, is_running,
                   message_loop_task>>

TaskStarts(t) ==
    /\ hd_pc[t] = "created"
    /\ StartHandler(t, "task")
    /\ UNCHANGED <<is_connected, websocket, is_authorized, message_loop_task>>

\* The task disconnect() cancels and waits for: message_loop_task if it is
\* not done.  When that is the very task that calls disconnect(), the
\* CancelledError is raised inside asyncio.wait_for and caught by
\* 'except asyncio.CancelledError: pass': the caller goes on.
CancelledBy(t) ==
    IF message_loop_task # 0 /\ message_loop_task # t
          /\ task_pc[message_loop_task] \notin {"none", "done"}
    THEN {message_loop_task} ELSE {}

\* The sleep before an attempt is over: _perform_reconnection up to its
\* asyncio.sleep(2), with disconnect() if the transport is marked connected.
\* A cancelled _message_loop ends through its except and finally clauses
\* (is_connected is False by then: no callback), whatever it was awaiting.
Disconnects(t) ==
    /\ hd_pc[t] = "sleep"
    /\ IF is_connected
       THEN /\ is_connected' = FALSE
            /\ is_authorized' = FALSE
            /\ task_pc' = [u \in Tasks |-> IF u \in CancelledBy(t) THEN "done"
                                           ELSE task_pc[u]]
            /\ hd_pc' = [u \in Tasks |-> IF u \in CancelledBy(t) THEN "none"
                                         ELSE IF u = t THEN "pre_connect"
                                         ELSE hd_pc[u]]
            /\ websocket' = "None"
       ELSE /\ hd_pc' = [hd_pc EXCEPT ![t] = "pre_connect"]
            /\ UNCHANGED <<is_connected, is_authorized, task_pc, websocket>>
    /\ UNCHANGED <<is_reconnecting, is_running, message_loop_task>>

\* asyncio.sleep(2) is over and connect() awaits websockets.connect(...).
\* A _message_loop whose loop condition is false (is_connected is False
\* here) has left its loop by then: it polls recv() every second.
ConnectStarts(t) ==
    /\ hd_pc[t] = "pre_connect"
    /\ \A u \in Tasks : task_pc[u] # "reading"
    /\ hd_pc' = [hd_pc EXCEPT ![t] = "connecting"]
    /\ UNCHANGED <<is_connected, websocket, is_authorized, is_reconnecting, is_running,
                   task_pc, message_loop_task>>

\* websockets.connect returns: is_connected = True and a new task for
\* _message_loop, kept in message_loop_task; or it raises: is_connected =
\* False, connect() returns False and the attempt has failed.
ConnectReturns(t, ok) ==
    /\ hd_pc[t] = "connecting"
    /\ IF ok
       THEN /\ Free # {}
            /\ websocket' = "open"
            /\ is_connected' = TRUE
            /\ task_pc' = [task_pc EXCEPT ![NewTask] = "reading"]
            /\ message_loop_task' = NewTask
            /\ hd_pc' = [hd_pc EXCEPT ![t] = "authorize"]
       ELSE /\ is_connected' = FALSE
            /\ hd_pc' = [hd_pc EXCEPT ![t] = "sleep"]
            /\ UNCHANGED <<websocket, task_pc, message_loop_task>>
    /\ UNCHANGED <<is_authorized, is_reconnecting, is_running>>

\* authorize() returns.  True: the response was read by a _message_loop;
\* the attempt and the episode end in success and _handle_disconnection
\* goes on to the recovery.  False: the attempt has failed.
AuthorizeReturns(t, ok) ==
    /\ hd_pc[t] = "authorize"
    /\ IF ok
       THEN /\ is_connected /\ websocket = "open"
            /\ \E u \in Tasks : task_pc[u] = "reading"
            /\ is_authorized' = TRUE
            /\ is_reconnecting' = FALSE
            /\ is_running' = TRUE
            /\ hd_pc' = [hd_pc EXCEPT ![t] = "recover"]
            /\ UNCHANGED is_connected
       ELSE /\ hd_pc' = [hd_pc EXCEPT ![t] = "sleep"]
            /\ is_connected' = IF websocket = "closed" THEN FALSE ELSE is_connected
            /\ UNCHANGED <<is_authorized, is_reconnecting, is_running>>
    /\ UNCHANGED <<websocket, task_pc, message_loop_task>>

\* _handle_disconnection returns after recover_lost_contracts,
\* _update_balance and _subscribe_to_ticks.
HandlerEnds(t) ==
    /\ hd_pc[t] = "recover"
    /\ hd_pc' = [hd_pc EXCEPT ![t] = "none"]
    /\ task_pc' = [task_pc EXCEPT ![t] = AfterHandler(task_pc[t])]
    /\ UNCHANGED <<is_connected, websocket, is_authorized, is_reconnecting, is_running,
                   message_loop_task>>

\* is_running is False: run() goes through _cleanup (disconnect()) and
\* asyncio.run cancels the tasks that are left.
ProgramEnds ==
    /\ ~is_running
    /\ \E t \in Tasks : task_pc[t] \notin {"none", "done"}
    /\ task_pc' = [t \in Tasks |-> IF task_pc[t] = "none" THEN "none" ELSE "done"]
    /\ hd_pc' = [t \in Tasks |-> "none"]
    /\ is_connected' = FALSE
    /\ is_authorized' = FALSE
    /\ is_reconnecting' = FALSE
    /\ websocket' = IF is_connected THEN "None" ELSE websocket
    /\ UNCHANGED <<is_running, message_loop_task>>

\* The setup is over: connected, authorized, one _message_loop reading.
InitTasks ==
    /\ InitRSVars /\ is_connected = TRUE /\ IdleDLVars /\ InitCMVars
    /\ IdleLGVars /\ InitMPVars
    /\ websocket = "open"
    /\ is_authorized = TRUE
    /\ pending_requests = EmptyTable
    /\ clock = 1
    /\ pump = "none"
    /\ wire = {}
    /\ rpc = [r \in Req |-> "idle"]
    /\ req_id = [r \in Req |-> 0]
    /\ future = [r \in Req |-> "none"]
    /\ on_socket = [r \in Req |-> FALSE]
    /\ answered = [r \in Req |-> FALSE]
    /\ rc_pc = "idle"
    /\ resolved = [r \in Req |-> 0]
    /\ notified = 0
    /\ message_count = 0
    /\ task_pc = [t \in Tasks |-> IF t = 1 THEN "reading" ELSE "none"]
    /\ hd_pc = [t \in Tasks |-> "none"]
    /\ message_loop_task = 1

NextTasks ==
    \/ ConnectionLost /\ UNCHANGED notTK
    \/ SendDetectsClosed /\ UNCHANGED notTK
    \/ \E t \in Tasks : LoopEnds(t) /\ UNCHANGED notTK
    \/ \E t \in Tasks : ErrorFrameRead(t) /\ UNCHANGED notTK
    \/ MainLoopCreatesTask /\ UNCHANGED notTK
    \/ \E t \in Tasks : TaskStarts(t) /\ UNCHANGED notTK
    \/ \E t \in Tasks : Disconnects(t) /\ UNCHANGED notTK
    \/ \E t \in Tasks : ConnectStarts(t) /\ UNCHANGED notTK
    \/ \E t \in Tasks, ok \in BOOLEAN : ConnectReturns(t, ok) /\ UNCHANGED notTK
    \/ \E t \in Tasks, ok \in BOOLEAN : AuthorizeReturns(t, ok) /\ UNCHANGED notTK
    \/ \E t \in Tasks : HandlerEnds(t) /\ UNCHANGED notTK
    \/ ProgramEnds /\ UNCHANGED notTK

SpecTasks == InitTasks /\ [][NextTasks]_vars

\* The calls of connect() in progress and the tasks of _message_loop that
\* are in their read loop.
ConnectsInProgress == {t \in Tasks : hd_pc[t] = "connecting"}
PumpsReading == {t \in Tasks : task_pc[t] = "reading"}

\* C33: at most one connect() is in progress at any time, and at most one
\* task of the read pump is alive on the transport.
C33_OneConnectOnePump ==
    /\ Cardinality(ConnectsInProgress) <= 1
    /\ Cardinality(PumpsReading) <= 1

====
